---- MODULE Spec2Model ----
(***************************************************************************)
(* Model of the SES-ascent pipeline of Urban_Gentrification:               *)
(*   - ACSData.impute_missing_values / fillna / get_gmean_from_neighbors   *)
(*     (src/pca/dataset.py), the spatial imputation of missing cells;      *)
(*   - ACSData.are_tracts_same / make_tracts_same (src/pca/dataset.py);    *)
(*   - transform, do_pca, compute_rank_ascent and the PCA, rank/ascent     *)
(*     and saving steps of __main__ (src/pca/pca_analysis.py);             *)
(*   - ACSData.__init__ and convert_acs_encoding (src/pca/dataset.py);     *)
(*   - fillna and the tract test of the earlier copies (src/PCA,           *)
(*     src/preprocessing.py), and the fill loop of                         *)
(*     plot_local_moran_time_lapse (vishelper.py).                         *)
(*                                                                         *)
(* Numbers.  A cell of a table is a record [num, root, den] that stands    *)
(* for the real number (num ^ (1/root)) / den, kept in canonical form, so  *)
(* that the geometric mean (an n-th root) and the median of an even count  *)
(* of values (a half) are exact.  NaN is the record with root = 0.         *)
(* Floating-point rounding of exp(mean(log x)) is not modelled.            *)
(***************************************************************************)
EXTENDS Integers, Sequences, FiniteSets, TLC

VARIABLES
    \* -- ACSData.impute_missing_values (src/pca/dataset.py)
    index,      \* self.data.index: the tracts that are rows of the table
    data,       \* self.data: tract -> column -> value
    county,     \* self.data['County']: tract -> county name
    geo,        \* the tracts that have a geometry in the shapefile
    touches,    \* Queen contiguity of the geometries: a set of 2-element sets
    ci,         \* position in COUNTIES of impute_missing_values' loop
    pc,         \* "idle" (between fillna calls), "fill" (inside the loops), "done"
    df,         \* fillna's df: the merged frame of the county being filled
    w,          \* fillna's w: tract of df -> its neighbours in df
    cols,       \* the columns of nans still to be processed (head = current)
    tracts,     \* the tracts of the current column still to be filled
    data0,      \* history: the table before impute_missing_values
    filled,     \* history: the cells <<tract, column>> fillna has written
    \* -- reconciliation of the two periods (__main__ lines 214-217)
    ds1,        \* dataSet1: [rows, index, nrows] (self.data's index and the caches)
    ds2,        \* dataSet2
    tpc,        \* "loaded", "mismatch" (the warning is printed), "gather"
    loaded,     \* history: the tract sets of the two tables as loaded
    \* -- do_pca (src/pca/pca_analysis.py)
    pca_df1,    \* do_pca's df1: row -> column -> cell
    pca_df2,    \* do_pca's df2
    array,      \* the stacked matrix: a sequence of rows
    ppc,        \* "start", "stacked", "finite_ok", "nan_ok", "scaler_fit",
                \* "scaled", "projected", "returned", "failed"
    perr,       \* the message of the failed assertion, "" if none
    pca_idx1,   \* df1.index: the tracts of df1's rows, in row order
    pca_idx2,   \* df2.index
    scaler,     \* the fitted scaler: column -> [center, scale], <<>> before
    pscores,    \* scores: the projected rows, a sequence
    merged,     \* the frame do_pca returns: tract -> columns, <<>> before
    \* -- compute_rank_ascent (src/pca/pca_analysis.py)
    scores,     \* df: tract -> [pre, post], the scores of the two periods
    affil,      \* dataSet1.data['Affiliated City']: tract -> city
    out,        \* the columns compute_rank_ascent adds, per tract
    rpc,        \* "scored", "ranked", "ranked_relative"
    \* -- transform (src/pca/pca_analysis.py)
    transformation, \* the policy: "box_cox", "in_between", "untransformed"
    tf_df1,     \* transform's df1: tract -> column -> value
    tf_df2,     \* transform's df2
    transformed,    \* the pair of tables transform returns, <<>> before
    xpc,        \* "gathered", "transformed", "failed"
    \* -- the run (__main__ lines 233-335)
    args,       \* [city, relative, exclude]: the options of the run
    main_index, \* dataSet1.data.index: the tracts of the reconciled tables
    main_city,  \* dataSet1.data['Affiliated City']: tract -> city
    nan_tracts, \* the tracts whose row of PCA variables holds a NaN
    cities,     \* the groups the current loop has still to visit
    fitted,     \* history: the cities do_pca has been fitted for
    main_scores,    \* the index of the scores frame: a sequence of tracts
    main_output,    \* the index of the output frame: a sequence of tracts
    files,      \* the files written so far
    mpc,        \* "pca", "city_loop", "rank", "relative_loop", "save",
                \* "done", "failed"
    merr,       \* the error that ended the run, "" if none
    \* -- ACSData.__init__ (src/pca/dataset.py)
    raw,        \* __init__'s df before convert_acs_encoding: tract -> column -> value
    raw0,       \* history: the table as read from the file
    \* -- fillna of src/preprocessing.py and src/PCA/dataset.py
    call        \* [fn, gmean, shapefile]: the call being made, <<>> if none

imputeVars == <<index, data, county, geo, touches, ci, pc, df, w, cols, tracts,
                data0, filled>>
tractVars == <<ds1, ds2, tpc, loaded>>
pcaJoinVars == <<pca_idx1, pca_idx2, scaler, pscores, merged>>
pcaVars == <<pca_df1, pca_df2, array, ppc, perr, pcaJoinVars>>
rankVars == <<scores, affil, out, rpc>>

transformVars == <<transformation, tf_df1, tf_df2, transformed, xpc>>
mainVars == <<args, main_index, main_city, nan_tracts, cities, fitted,
              main_scores, main_output, files, mpc, merr>>

loadVars == <<raw, raw0>>
callVars == <<call>>

vars == <<imputeVars, tractVars, pcaVars, rankVars, transformVars, mainVars,
          loadVars, callVars>>

----------------------------------------------------------------------------
(* Bounds of the model *)

\* number of tracts of the table in the structure family of initial states
NumTracts == 3
\* number of tracts of the table in the value family of initial states
NumTractsV == 4
\* largest number of contiguities between the tracts of a table
MaxEdges == 3
\* largest number of missing cells of a table of the structure family
MaxMissing == 2

----------------------------------------------------------------------------
(* Values *)

NaN == [num |-> 0, root |-> 0, den |-> 0]

Num(v) == [num |-> v, root |-> 1, den |-> 1]

\* np.nan as a cell value: pandas .isna() / np.isnan
isna_falsy(v) == v.root = 0 \/ v.num = 0
isna(v) == v.root = 0

\* The known values a column may hold in the input tables: a negative code,
\* zero and two positive values.
DataValues == {-4, 0, 4, 9}
MaxDataValue == CHOOSE m \in DataValues : \A v \in DataValues : v <= m

RECURSIVE Product(_, _)
Product(S, f) ==
    IF S = {} THEN 1
    ELSE LET u == CHOOSE x \in S : TRUE IN f[u] * Product(S \ {u}, f)

\* The real n-th root of the positive integer P, in canonical form: g is the
\* largest divisor of n for which P is a perfect g-th power (g = 1 always is).
Root(P, n) ==
    LET Base(g) == 1..(MaxDataValue ^ (n \div g))
        Perfect(g) == g = 1 \/ (n % g = 0 /\ \E r \in Base(g) : r ^ g = P)
        g == CHOOSE d \in 1..n : Perfect(d) /\ \A e \in 1..n : Perfect(e) => e <= d
        r == IF g = 1 THEN P ELSE CHOOSE x \in Base(g) : x ^ g = P
    IN [num |-> r, root |-> n \div g, den |-> 1]

\* scipy.stats.gmean over the integers f[u], u \in S (S nonempty):
\* exp(mean(log(a))).  log of a negative number is nan, log(0) is -inf and
\* exp(-inf) is 0; numpy only warns.
gmean(S, f) ==
    IF \E u \in S : f[u] < 0 THEN NaN
    ELSE IF \E u \in S : f[u] = 0 THEN Num(0)
    ELSE Root(Product(S, f), Cardinality(S))

\* The k-th smallest of the integers f[u], u \in S.
Kth(S, f, k) ==
    CHOOSE v \in {f[u] : u \in S} :
        /\ Cardinality({u \in S : f[u] < v}) < k
        /\ Cardinality({u \in S : f[u] <= v}) >= k

Half(s) == IF s % 2 = 0 THEN Num(s \div 2) ELSE [num |-> s, root |-> 1, den |-> 2]

\* pandas Series.median over the integers f[u], u \in S: NaN when S is empty,
\* the middle value, or the mean of the two middle values.
median_midrange(S, f) ==
    LET n == Cardinality(S) IN
    IF n = 0 THEN NaN
    ELSE Half(Kth(S, f, 1) + Kth(S, f, n))
median(S, f) ==
    LET n == Cardinality(S) IN
    IF n = 0 THEN NaN
    ELSE IF n % 2 = 1 THEN Num(Kth(S, f, (n + 1) \div 2))
    ELSE Half(Kth(S, f, n \div 2) + Kth(S, f, n \div 2 + 1))

----------------------------------------------------------------------------
(* Configuration and tables *)

\* The numeric columns of the table (the model keeps two of them).
Cols == <<"c1", "c2">>
ColSet == {Cols[i] : i \in 1..Len(Cols)}

\* COUNTIES, flattened to the order in which impute_missing_values visits
\* the (state, county) pairs.  "X" is a county of the data that is not
\* configured.
COUNTIES == <<"A", "B">>
CountyNames == {"A", "B", "X"}

Pairs(S) == {{a, b} : a, b \in S} \ {{a} : a \in S}

\* Series.isna() over one column of a frame d with rows R.
isna_rows(d, R, c) == {t \in R : isna(d[t][c])}
notna_rows(d, R, c) == {t \in R : ~isna(d[t][c])}

\* The integer held by each row of column c (defined on the known rows).
ColumnInts(d, c) == [t \in DOMAIN d |-> d[t][c].num]

\* ACSData.findna: the columns with at least one missing value, in column
\* order.
findna(d) ==
    SelectSeq(Cols, LAMBDA c : isna_rows(d, DOMAIN d, c) # {})

\* ACSData.merge_geodata: a copy of the rows of the county, inner-joined
\* with the geometries.
merge_geodata_any_county(d, cty, g, c) ==
    [t \in {u \in DOMAIN d : u \in g} |-> d[t]]
merge_geodata(d, cty, g, c) ==
    [t \in {u \in DOMAIN d : cty[u] = c /\ u \in g} |-> d[t]]

\* pysal Queen.from_dataframe(df): the neighbours of each row among the
\* rows of df.
Queen(frame, tch) ==
    [t \in DOMAIN frame |-> {u \in DOMAIN frame : u # t /\ {t, u} \in tch}]

\* ACSData.get_gmean_from_neighbors
get_gmean_counts_nan(wts, frame, tract, column) ==
    LET known == notna_rows(frame, wts[tract], column) IN
    IF known # {}
    THEN LET g == gmean(known, ColumnInts(frame, column)) IN
         IF known = wts[tract] \/ isna(g) \/ g.num = 0 THEN g
         ELSE \* the missing neighbours counted in n
              LET n == Cardinality(wts[tract])
                  P == Product(known, ColumnInts(frame, column))
              IN Root(P, n)
    ELSE median(notna_rows(frame, DOMAIN frame, column), ColumnInts(frame, column))
get_gmean_from_neighbors(wts, frame, tract, column) ==
    LET known == notna_rows(frame, wts[tract], column) IN
    IF known # {}
    THEN gmean(known, ColumnInts(frame, column))
    ELSE median(notna_rows(frame, DOMAIN frame, column), ColumnInts(frame, column))

\* fillna line 240-243: the tracts of df missing the column; a column with
\* none is skipped.
missing_tracts_all(frame, column) == DOMAIN frame
missing_tracts(frame, column) == isna_rows(frame, DOMAIN frame, column)

RECURSIVE skip_columns(_, _)
skip_columns(frame, cs) ==
    IF cs = <<>> THEN <<>>
    ELSE IF missing_tracts(frame, Head(cs)) = {} THEN skip_columns(frame, Tail(cs))
    ELSE cs

\* df is a copy (merge_geodata line 215): the write of line 248 goes to
\* self.data and leaves df as it was.
df_aliased(frame, tract, column, m) == [frame EXCEPT ![tract][column] = m]
df_after_write(frame, tract, column, m) == frame

----------------------------------------------------------------------------
(* Initial states *)

\* The tracts of a table are interchangeable (fillna takes the tracts of a
\* column in any order here), so the initial tables are enumerated up to a
\* renaming of the tracts: one family orders the tracts by county (as the
\* sort by geo11, whose prefix is the county code, does), the other by the
\* value of the first column.
Monotone(n, k) == {f \in [1..n -> 1..k] : \A i \in 1..(n - 1) : f[i] <= f[i + 1]}

Graphs(S) == {G \in SUBSET Pairs(S) : Cardinality(G) <= MaxEdges}

\* every tract has a geometry, or all but one
GeoSets(S) == {S} \cup {S \ {t} : t \in S}

CountyOrder == <<"A", "B", "X">>
ValueOrder == <<NaN, Num(-4), Num(0), Num(4), Num(9)>>

Tables(R, V1, V2) ==
    {[t \in R |-> [c1 |-> r[1][t], c2 |-> r[2][t]]] :
        r \in [R -> V1] \X [R -> V2]}

MissingCells(d) == {<<t, c>> \in (DOMAIN d) \X ColSet : d[t][c] = NaN}

\* the known value of the first column in the tracts of a county
CountyValue(c) == IF c = "A" THEN Num(4) ELSE Num(9)

\* Structure family: every county assignment, adjacency and geometry set,
\* with at most MaxMissing cells missing over the two columns; the known
\* values of the first column differ from county to county.
InitStructure ==
    /\ index = 1..NumTracts
    /\ \E f \in Monotone(NumTracts, Len(CountyOrder)) :
        county = [t \in index |-> CountyOrder[f[t]]]
    /\ geo \in GeoSets(index)
    /\ touches \in Graphs(index)
    /\ \E d \in {e \in Tables(index, {NaN, Num(4)}, {NaN, Num(9)}) :
                    Cardinality(MissingCells(e)) <= MaxMissing} :
        data = [t \in index |->
                    [c1 |-> IF d[t].c1 = NaN THEN NaN ELSE CountyValue(county[t]),
                     c2 |-> d[t].c2]]

\* Value family: one county, every adjacency and geometry set, and the
\* first column over all data values (any number of them missing).
InitValues ==
    /\ index = 1..NumTractsV
    /\ county = [t \in index |-> "A"]
    /\ geo \in GeoSets(index)
    /\ touches \in Graphs(index)
    /\ \E f \in Monotone(NumTractsV, Len(ValueOrder)) :
        data = [t \in index |-> [c1 |-> ValueOrder[f[t]], c2 |-> Num(9)]]

InitImpute ==
    /\ (InitStructure \/ InitValues)
    /\ data0 = data
    /\ ci = 1
    /\ pc = "idle"
    /\ df = <<>>
    /\ w = <<>>
    /\ cols = <<>>
    /\ tracts = {}
    /\ filled = {}

----------------------------------------------------------------------------
(* ACSData.impute_missing_values and ACSData.fillna *)

\* fillna lines 233-243: merge, build the weights, find the columns with
\* missing values and enter the loops; with nothing to fill the call
\* returns and the county loop advances.
BeginFillna ==
    /\ pc = "idle"
    /\ ci <= Len(COUNTIES)
    /\ LET frame == merge_geodata(data, county, geo, COUNTIES[ci])
           cs == skip_columns(frame, findna(data))
       IN /\ df' = frame
          /\ w' = Queen(frame, touches)
          /\ cols' = cs
          /\ IF cs = <<>>
             THEN /\ pc' = "idle"
                  /\ ci' = ci + 1
                  /\ tracts' = {}
             ELSE /\ pc' = "fill"
                  /\ ci' = ci
                  /\ tracts' = missing_tracts(frame, Head(cs))
    /\ UNCHANGED <<index, data, county, geo, touches, data0, filled>>
    /\ UNCHANGED <<tractVars, pcaVars, rankVars, transformVars, mainVars,
                   loadVars, callVars>>

\* fillna lines 246-248 for one tract (the tracts of a column are taken in
\* any order), followed by the advance of the column and county loops.
FillTract ==
    /\ pc = "fill"
    /\ \E tract \in tracts :
        LET col == Head(cols)
            m == get_gmean_from_neighbors(w, df, tract, col)
            frame == df_after_write(df, tract, col, m)
            rest == tracts \ {tract}
            cs == skip_columns(frame, Tail(cols))
        IN /\ data' = [data EXCEPT ![tract][col] = m]
           /\ filled' = filled \cup {<<tract, col>>}
           /\ df' = frame
           /\ IF rest # {}
              THEN /\ tracts' = rest
                   /\ UNCHANGED <<cols, pc, ci>>
              ELSE IF cs # <<>>
              THEN /\ cols' = cs
                   /\ tracts' = missing_tracts(frame, Head(cs))
                   /\ UNCHANGED <<pc, ci>>
              ELSE /\ cols' = <<>>
                   /\ tracts' = {}
                   /\ pc' = "idle"
                   /\ ci' = ci + 1
    /\ UNCHANGED <<index, county, geo, touches, w, data0>>
    /\ UNCHANGED <<tractVars, pcaVars, rankVars, transformVars, mainVars,
                   loadVars, callVars>>

\* impute_missing_values returns after the last county.
FinishImpute ==
    /\ pc = "idle"
    /\ ci > Len(COUNTIES)
    /\ pc' = "done"
    /\ UNCHANGED <<index, data, county, geo, touches, ci, df, w, cols, tracts,
                   data0, filled>>
    /\ UNCHANGED <<tractVars, pcaVars, rankVars, transformVars, mainVars,
                   loadVars, callVars>>

----------------------------------------------------------------------------
(* ACSData.__init__: convert_acs_encoding and the drop of unpopulated tracts *)

\* number of rows of the file in the model of the constructor
NumLoadTracts == 3

\* the code the ACS files use for a value that is not reported
nan_code == -666666666

\* the columns of the file in the model: the population and the two
\* numeric columns
LoadCols == {"Total Population", "c1", "c2"}

\* convert_acs_encoding: [ret |-> the frame returned, arg |-> the argument
\* after the call]; the loop works on a copy of df.
convert_acs_encoding_no_copy(frame) ==
    LET converted == [t \in DOMAIN frame |->
                    [col \in DOMAIN frame[t] |->
                        IF frame[t][col] = Num(nan_code) THEN NaN ELSE frame[t][col]]]
    IN [ret |-> converted, arg |-> converted]
convert_acs_encoding(frame) ==
    LET converted == [t \in DOMAIN frame |->
                    [col \in DOMAIN frame[t] |->
                        IF frame[t][col] = Num(nan_code) THEN NaN ELSE frame[t][col]]]
    IN [ret |-> converted, arg |-> frame]

\* find_unpopulated_tracts: the rows whose population is 0
find_unpopulated_tracts(frame) ==
    {t \in DOMAIN frame : frame[t]["Total Population"] = Num(0)}

\* The files: every row has a population (0 or positive), and the two
\* numeric columns hold a value or the code. The tracts are of one county
\* and have geometries, which all touch or are all apart.
RawRows ==
    {[col \in LoadCols |-> IF col = "Total Population" THEN p
                           ELSE IF col = "c1" THEN a ELSE b] :
        p \in {Num(0), Num(4)},
        a \in {Num(nan_code), Num(4), Num(9)},
        b \in {Num(nan_code), Num(9)}}

InitLoad ==
    /\ index = 1..NumLoadTracts
    /\ raw0 \in [index -> RawRows]
    /\ raw = raw0
    /\ county = [t \in index |-> "A"]
    /\ geo = index
    /\ touches \in {{}, Pairs(index)}
    /\ data = <<>> /\ data0 = <<>>
    /\ ci = 1 /\ pc = "construct"
    /\ df = <<>> /\ w = <<>> /\ cols = <<>> /\ tracts = {} /\ filled = {}

\* __init__ line 155: df = convert_acs_encoding(df)
ConvertEncoding ==
    /\ pc = "construct"
    /\ LET r == convert_acs_encoding(raw)
       IN /\ data' = r.ret
          /\ raw' = r.arg
    /\ pc' = "converted"
    /\ UNCHANGED <<index, county, geo, touches, ci, df, w, cols, tracts, data0,
                   filled, raw0>>
    /\ UNCHANGED <<tractVars, pcaVars, rankVars, transformVars, mainVars, callVars>>

\* __init__ lines 156-159: the unpopulated tracts are dropped and the table
\* becomes self.data; the imputation is called on the object afterwards.
DropUnpopulated ==
    /\ pc = "converted"
    /\ LET kept == DOMAIN data \ find_unpopulated_tracts(data)
           frame == [t \in kept |-> data[t]]
       IN /\ data' = frame
          /\ data0' = frame
          /\ index' = kept
    /\ pc' = "idle"
    /\ UNCHANGED <<county, geo, touches, ci, df, w, cols, tracts, filled>>
    /\ UNCHANGED <<tractVars, pcaVars, rankVars, transformVars, mainVars,
                   loadVars, callVars>>

----------------------------------------------------------------------------
(* fillna of src/preprocessing.py and of src/PCA/dataset.py *)

\* merge_geodata of both files: the inner join of the whole table with the
\* geometries
PCA_merge_geodata(d, g) == [t \in {u \in DOMAIN d : u \in g} |-> d[t]]

\* get_gmean_from_neighbors of both files: the geometric mean of the known
\* neighbour values; scipy's gmean of no value is nan.
PCA_get_gmean_from_neighbors(wts, frame, tract, column) ==
    LET known == notna_rows(frame, wts[tract], column) IN
    IF known = {} THEN NaN ELSE gmean(known, ColumnInts(frame, column))

\* The loops of fillna over the columns of nans and the tracts of df that
\* miss the column: the table after the writes, the values coming from df.
fillna_loops(d, frame, wts, gm) ==
    [t \in DOMAIN d |->
        [c \in ColSet |->
            IF t \in DOMAIN frame /\ isna(frame[t][c])
            THEN IF gm THEN PCA_get_gmean_from_neighbors(wts, frame, t, c)
                 ELSE median(notna_rows(frame, DOMAIN frame, c),
                             ColumnInts(frame, c))
            ELSE d[t][c]]]

\* the cells the loops write
fillna_cells(frame) ==
    {cell \in (DOMAIN frame) \X ColSet : isna(frame[cell[1]][cell[2]])}

\* src/preprocessing.py, fillna: without gmean df is a copy of the table.
preprocessing_fillna(d, gm, shapefile, g, tch) ==
    IF gm /\ shapefile = "None"
    THEN [err |-> "AssertionError", data |-> d, cells |-> {}]
    ELSE LET frame == IF gm THEN PCA_merge_geodata(d, g) ELSE d
         IN [err |-> "",
             data |-> fillna_loops(d, frame, Queen(frame, tch), gm),
             cells |-> fillna_cells(frame)]

\* src/PCA/dataset.py, ACSData.fillna: df and w are bound under gmean only,
\* and the first pass of the column loop reads df.
PCA_fillna(d, gm, shapefile, g, tch) ==
    IF gm /\ shapefile = "None"
    THEN [err |-> "AssertionError", data |-> d, cells |-> {}]
    ELSE IF ~gm
    THEN IF findna(d) # <<>>
         THEN [err |-> "UnboundLocalError", data |-> d, cells |-> {}]
         ELSE [err |-> "", data |-> d, cells |-> {}]
    ELSE LET frame == PCA_merge_geodata(d, g)
         IN [err |-> "",
             data |-> fillna_loops(d, frame, Queen(frame, tch), gm),
             cells |-> fillna_cells(frame)]

Shapefiles == {"None", "tl_2010_tract10"}

\* a call of fillna of src/preprocessing.py
CallPreprocessingFillna ==
    /\ pc = "idle" /\ call = <<>>
    /\ \E gm \in BOOLEAN, shapefile \in Shapefiles :
        LET r == preprocessing_fillna(data, gm, shapefile, geo, touches)
        IN /\ call' = [fn |-> "preprocessing", gmean |-> gm, shapefile |-> shapefile]
           /\ data' = r.data
           /\ filled' = r.cells
           /\ pc' = IF r.err = "" THEN "done" ELSE r.err
    /\ UNCHANGED <<index, county, geo, touches, ci, df, w, cols, tracts, data0>>
    /\ UNCHANGED <<tractVars, pcaVars, rankVars, transformVars, mainVars, loadVars>>

\* a call of ACSData.fillna of src/PCA/dataset.py
CallPCAFillna ==
    /\ pc = "idle" /\ call = <<>>
    /\ \E gm \in BOOLEAN, shapefile \in Shapefiles :
        LET r == PCA_fillna(data, gm, shapefile, geo, touches)
        IN /\ call' = [fn |-> "PCA", gmean |-> gm, shapefile |-> shapefile]
           /\ data' = r.data
           /\ filled' = r.cells
           /\ pc' = IF r.err = "" THEN "done" ELSE r.err
    /\ UNCHANGED <<index, county, geo, touches, ci, df, w, cols, tracts, data0>>
    /\ UNCHANGED <<tractVars, pcaVars, rankVars, transformVars, mainVars, loadVars>>

----------------------------------------------------------------------------
(* plot_local_moran_time_lapse (vishelper.py): the fill loop of one year *)

\* largest number of incomplete tracts of the year's subset
VisMaxMissing == 2

\* col_name, the column the plots are made of
col_name == "c1"

\* A cell is an integer, or the value of an exact median or geometric mean
\* of integers; Inexact stands for a number computed from a cell that is
\* not an integer, which the model does not evaluate.
IsInt(v) == v.root = 1 /\ v.den = 1
Inexact == [num |-> 1, root |-> -1, den |-> 1]

\* gmean and median over the known cells frame[u][column], u \in S
cells_gmean(S, frame, column) ==
    IF \E u \in S : frame[u][column].num < 0 THEN NaN
    ELSE IF \E u \in S : frame[u][column].num = 0 THEN Num(0)
    ELSE IF \A u \in S : IsInt(frame[u][column])
    THEN gmean(S, ColumnInts(frame, column))
    ELSE Inexact

cells_median(S, frame, column) ==
    IF S = {} THEN NaN
    ELSE IF \A u \in S : IsInt(frame[u][column])
    THEN median(S, ColumnInts(frame, column))
    ELSE Inexact

\* compute_gmean: the county medians, the neighbour values and the
\* geometric mean are all read from frame, the table being filled.
compute_gmean(frame, cty, tract, weights, column) ==
    LET known == notna_rows(frame, weights[tract], column)
        has_neighbors == known # {}
        group == {u \in DOMAIN frame : cty[u] = cty[tract]}
    IN IF has_neighbors
       THEN cells_gmean(known, frame, column)
       ELSE cells_median(notna_rows(frame, group, column), frame, column)

\* The rows of one year of city_gdf: every row has a geometry, and at most
\* VisMaxMissing of them miss the column.
InitVis ==
    /\ InitImpute
    /\ geo = index
    /\ Cardinality(isna_rows(data, index, col_name)) <= VisMaxMissing

\* lines 281-288: the subset of the year, its weights and its incomplete
\* tracts
VisSubset ==
    /\ pc = "idle"
    /\ LET subset == [t \in index |-> data[t]]
           incomplete_tracts == isna_rows(subset, DOMAIN subset, col_name)
       IN /\ df' = subset
          /\ w' = Queen(subset, touches)
          /\ tracts' = incomplete_tracts
          /\ pc' = IF incomplete_tracts = {} THEN "done" ELSE "fill"
    /\ cols' = <<col_name>>
    /\ UNCHANGED <<index, data, county, geo, touches, ci, data0, filled>>
    /\ UNCHANGED <<tractVars, pcaVars, rankVars, transformVars, mainVars,
                   loadVars, callVars>>

\* lines 289-290 for one tract: the fill is computed from subset and written
\* into subset. The rows of city_gdf come in any order, and so do the
\* incomplete tracts.
VisFillTract ==
    /\ pc = "fill"
    /\ \E tract \in tracts :
        /\ df' = [df EXCEPT ![tract][col_name] =
                        compute_gmean(df, county, tract, w, col_name)]
        /\ filled' = filled \cup {<<tract, col_name>>}
        /\ tracts' = tracts \ {tract}
        /\ pc' = IF tracts = {tract} THEN "done" ELSE "fill"
    /\ UNCHANGED <<index, data, county, geo, touches, ci, w, cols, data0>>
    /\ UNCHANGED <<tractVars, pcaVars, rankVars, transformVars, mainVars,
                   loadVars, callVars>>

----------------------------------------------------------------------------
(* ACSData.are_tracts_same and ACSData.make_tracts_same *)

\* The tract identifiers a period's table may hold.
MaxTractId == 4

SeqToSet(q) == {q[i] : i \in 1..Len(q)}

\* The sorted sequence of a set of tract identifiers (__init__ sorts the
\* table by geo11).
RECURSIVE SortedSeq(_)
SortedSeq(S) ==
    IF S = {} THEN <<>>
    ELSE LET m == CHOOSE x \in S : \A y \in S : x <= y
         IN <<m>> \o SortedSeq(S \ {m})

\* ACSData.__init__ lines 156-159: the table and the cached shape and index.
ACSData(S) ==
    LET rows == SortedSeq(S) IN [rows |-> rows, index |-> rows, nrows |-> Len(rows)]

\* are_tracts_same: the element-wise comparison of the cached indexes; pandas
\* raises ValueError when the lengths differ, which gives False.
are_tracts_same(self, other) ==
    IF Len(self.index) # Len(other.index) THEN FALSE
    ELSE \A i \in 1..Len(self.index) : self.index[i] = other.index[i]

\* DataFrame.drop(labels, inplace=True)
drop(rows, labels) == SelectSeq(rows, LAMBDA t : t \notin labels)

\* make_tracts_same: <<self, other>> after the call.
make_tracts_same_stale(self, other) ==
    LET diff1 == SeqToSet(self.index) \ SeqToSet(other.index)
        diff2 == SeqToSet(other.index) \ SeqToSet(self.index)
        rows1 == IF diff1 # {} THEN drop(self.rows, diff1) ELSE self.rows
        rows2 == IF diff2 # {} THEN drop(other.rows, diff2) ELSE other.rows
    IN << [rows |-> rows1, index |-> rows1, nrows |-> Len(rows1)],
          [rows |-> rows2, index |-> other.index, nrows |-> Len(rows2)] >>
make_tracts_same(self, other) ==
    LET diff1 == SeqToSet(self.index) \ SeqToSet(other.index)
        diff2 == SeqToSet(other.index) \ SeqToSet(self.index)
        rows1 == IF diff1 # {} THEN drop(self.rows, diff1) ELSE self.rows
        rows2 == IF diff2 # {} THEN drop(other.rows, diff2) ELSE other.rows
    IN << [rows |-> rows1, index |-> rows1, nrows |-> Len(rows1)],
          [rows |-> rows2, index |-> rows2, nrows |-> Len(rows2)] >>

InitTracts ==
    /\ \E S1, S2 \in SUBSET (1..MaxTractId) :
        /\ ds1 = ACSData(S1)
        /\ ds2 = ACSData(S2)
        /\ loaded = <<S1, S2>>
    /\ tpc = "loaded"

\* __main__ line 214: the test of are_tracts_same, and the warning.
MainCheckTracts ==
    /\ tpc = "loaded"
    /\ tpc' = IF are_tracts_same(ds1, ds2) THEN "gather" ELSE "mismatch"
    /\ UNCHANGED <<ds1, ds2, loaded>>
    /\ UNCHANGED <<imputeVars, pcaVars, rankVars, transformVars, mainVars, loadVars, callVars>>

\* __main__ line 217: dataSet1.make_tracts_same(dataSet2)
MainMakeTractsSame ==
    /\ tpc = "mismatch"
    /\ LET r == make_tracts_same(ds1, ds2)
       IN /\ ds1' = r[1]
          /\ ds2' = r[2]
    /\ tpc' = "gather"
    /\ UNCHANGED loaded
    /\ UNCHANGED <<imputeVars, pcaVars, rankVars, transformVars, mainVars, loadVars, callVars>>

\* src/PCA/dataset.py, are_tracts_same: the comparison without the handler;
\* "ValueError" stands for the exception pandas raises on different lengths.
PCA_are_tracts_same(self, other) ==
    IF Len(self.index) # Len(other.index) THEN "ValueError"
    ELSE IF \A i \in 1..Len(self.index) : self.index[i] = other.index[i]
         THEN "True" ELSE "False"

\* src/PCA/pca_analysis.py line 185: the test of are_tracts_same; an
\* exception ends the run.
PCAMainCheckTracts ==
    /\ tpc = "loaded"
    /\ LET match == PCA_are_tracts_same(ds1, ds2)
       IN tpc' = IF match = "ValueError" THEN "ValueError"
                 ELSE IF match = "True" THEN "gather" ELSE "mismatch"
    /\ UNCHANGED <<ds1, ds2, loaded>>
    /\ UNCHANGED <<imputeVars, pcaVars, rankVars, transformVars, mainVars, loadVars, callVars>>

\* src/PCA/pca_analysis.py lines 186-193: the dissimilar tracts are dropped
\* from the two tables in place; the cached index and row count stay.
PCAMainDropDissimilar ==
    /\ tpc = "mismatch"
    /\ LET diff1 == SeqToSet(ds1.index) \ SeqToSet(ds2.index)
           rows1 == IF diff1 # {} THEN drop(ds1.rows, diff1) ELSE ds1.rows
           diff2 == SeqToSet(ds2.index) \ SeqToSet(ds1.index)
           rows2 == IF diff2 # {} THEN drop(ds2.rows, diff2) ELSE ds2.rows
       IN /\ ds1' = [ds1 EXCEPT !.rows = rows1]
          /\ ds2' = [ds2 EXCEPT !.rows = rows2]
    /\ tpc' = "gather"
    /\ UNCHANGED loaded
    /\ UNCHANGED <<imputeVars, pcaVars, rankVars, transformVars, mainVars, loadVars, callVars>>

----------------------------------------------------------------------------
(* do_pca: the stacked matrix and its precondition checks *)

\* rows of one period's table in the model
MaxPcaRows == 2

PcaCols == {"x", "y"}

\* A cell of the matrix: a finite number, an infinity or NaN.
Fin(v) == [k |-> "fin", v |-> v]
PosInf == [k |-> "inf", v |-> 0]
NegInf == [k |-> "-inf", v |-> 0]
PNaN == [k |-> "nan", v |-> 0]
PcaCells == {Fin(1), PosInf, NegInf, PNaN}

isfinite(x) == x.k = "fin"
isnan(x) == x.k = "nan"

Cells(a) == {a[i][c] : i \in 1..Len(a), c \in PcaCols}

\* line 98: np.isfinite(array).any()
any_isfinite(a) == \E x \in Cells(a) : isfinite(x)
\* line 99: ~np.isnan(array).any()
not_any_isnan(a) == ~(\E x \in Cells(a) : isnan(x))

InitPca ==
    /\ \E n1, n2 \in 1..MaxPcaRows :
        /\ pca_df1 \in [1..n1 -> [PcaCols -> PcaCells]]
        /\ pca_df2 \in [1..n2 -> [PcaCols -> PcaCells]]
    /\ pca_idx1 = [i \in DOMAIN pca_df1 |-> i]
    /\ pca_idx2 = [i \in DOMAIN pca_df2 |-> i]
    /\ array = <<>>
    /\ ppc = "start"
    /\ perr = ""
    /\ scaler = <<>> /\ pscores = <<>> /\ merged = <<>>

\* line 96: np.concatenate((df1, df2), axis=0)
Concatenate ==
    /\ ppc = "start"
    /\ array' = pca_df1 \o pca_df2
    /\ ppc' = "stacked"
    /\ UNCHANGED <<pca_df1, pca_df2, perr>>
    /\ UNCHANGED pcaJoinVars
    /\ UNCHANGED <<imputeVars, tractVars, rankVars, transformVars, mainVars, loadVars, callVars>>

\* line 98: assert np.isfinite(array).any(), '...'
AssertFinite ==
    /\ ppc = "stacked"
    /\ IF any_isfinite(array)
       THEN ppc' = "finite_ok" /\ perr' = perr
       ELSE ppc' = "failed" /\ perr' = "Error: array contains infinite values"
    /\ UNCHANGED <<pca_df1, pca_df2, array>>
    /\ UNCHANGED pcaJoinVars
    /\ UNCHANGED <<imputeVars, tractVars, rankVars, transformVars, mainVars, loadVars, callVars>>

\* line 99: assert ~np.isnan(array).any(), '...'
AssertNotNaN ==
    /\ ppc = "finite_ok"
    /\ IF not_any_isnan(array)
       THEN ppc' = "nan_ok" /\ perr' = perr
       ELSE ppc' = "failed" /\ perr' = "Error: array contains NaN values"
    /\ UNCHANGED <<pca_df1, pca_df2, array>>
    /\ UNCHANGED pcaJoinVars
    /\ UNCHANGED <<imputeVars, tractVars, rankVars, transformVars, mainVars, loadVars, callVars>>

\* lines 103-104: the scaler is created and scaler.fit(array) is called.
FitScaler ==
    /\ ppc = "nan_ok"
    /\ ppc' = "scaler_fit"
    /\ UNCHANGED <<pca_df1, pca_df2, array, perr>>
    /\ UNCHANGED pcaJoinVars
    /\ UNCHANGED <<imputeVars, tractVars, rankVars, transformVars, mainVars, loadVars, callVars>>

----------------------------------------------------------------------------
(* compute_rank_ascent *)

\* tracts of the joined score table, and the scores they may have
MaxRankTracts == 3
MaxScore == 3

RECURSIVE GCD(_, _)
GCD(a, b) == IF b = 0 THEN a ELSE GCD(b, a % b)

Abs(x) == IF x < 0 THEN -x ELSE x

\* The rational p / q (q > 0) in lowest terms.
Frac(p, q) ==
    LET g == GCD(Abs(p), q) IN [n |-> p \div g, d |-> q \div g]

FracSub(a, b) == Frac(a.n * b.d - b.n * a.d, a.d * b.d)

RECURSIVE SumRange(_, _)
SumRange(lo, hi) == IF lo > hi THEN 0 ELSE lo + SumRange(lo + 1, hi)

\* Series.rank(ascending=False), method 'average' (the default): the keys
\* are sorted in descending order and each tract receives the mean of the
\* positions its tie group occupies.  key maps the tracts of S to rationals.
Greater(a, b) == a.n * b.d > b.n * a.d

\* method 'min' and method 'max': the first and the last position of the group
rank_min(S, key, i) ==
    Frac(Cardinality({j \in S : Greater(key[j], key[i])}) + 1, 1)
rank_max(S, key, i) ==
    Frac(Cardinality({j \in S : Greater(key[j], key[i]) \/ key[j] = key[i]}), 1)
rank_dense(S, key, i) ==
    Frac(Cardinality({key[j] : j \in {x \in S : Greater(key[x], key[i])}}) + 1, 1)
rank(S, key, i) ==
    LET g == Cardinality({j \in S : Greater(key[j], key[i])})
        t == Cardinality({j \in S : key[j] = key[i]})
    IN Frac(SumRange(g + 1, g + t), t)

\* Series.rank(ascending=False, pct=True) * 100
rank_pct100_ascending(S, key, i) ==
    LET neg == [j \in S |-> Frac(-key[j].n, key[j].d)]
        r == rank(S, neg, i)
    IN Frac(100 * r.n, r.d * Cardinality(S))
rank_pct100(S, key, i) ==
    LET r == rank(S, key, i) IN Frac(100 * r.n, r.d * Cardinality(S))

\* A column assigned to the frame: the function with its values computed.
Column(f) == f @@ <<>>

\* line 149: df['scores_post'] - df['scores_pre']
scores_asc_sum(sc, i) == sc[i].post + sc[i].pre
scores_asc(sc, i) == sc[i].post - sc[i].pre

\* lines 154-155: df['scores_pr_post'] - df['scores_pr_pre']
scores_pr_asc_swapped(pr_pre, pr_post, i) == FracSub(pr_pre[i], pr_post[i])
scores_pr_asc(pr_pre, pr_post, i) == FracSub(pr_post[i], pr_pre[i])

\* compute_rank_ascent lines 147-155: the columns added to df.
compute_rank_ascent(sc) ==
    LET S == DOMAIN sc
        pre == Column([i \in S |-> Frac(sc[i].pre, 1)])
        post == Column([i \in S |-> Frac(sc[i].post, 1)])
        rank_pre == Column([i \in S |-> rank(S, pre, i)])
        rank_post == Column([i \in S |-> rank(S, post, i)])
        pr_pre == Column([i \in S |-> rank_pct100(S, rank_pre, i)])
        pr_post == Column([i \in S |-> rank_pct100(S, rank_post, i)])
    IN [i \in S |->
          [rank_pre |-> rank_pre[i],
           rank_post |-> rank_post[i],
           scores_asc |-> scores_asc(sc, i),
           scores_pr_pre |-> pr_pre[i],
           scores_pr_post |-> pr_post[i],
           scores_pr_asc |-> scores_pr_asc(pr_pre, pr_post, i)]]

\* The cities of the score table.
RankCities == <<"Austin", "Houston">>

\* The tracts are taken in the order of their city and, within a city, of
\* their period-1 score; the period-2 scores are free, so this is every
\* table up to a renaming of the tracts.
InitRank ==
    /\ \E n \in 1..MaxRankTracts :
        /\ \E f \in Monotone(n, Len(RankCities)) :
            affil = [i \in 1..n |-> RankCities[f[i]]]
        /\ scores \in [1..n -> [pre : 1..MaxScore, post : 1..MaxScore]]
        /\ \A i \in 1..(n - 1) :
            affil[i] = affil[i + 1] => scores[i].pre <= scores[i + 1].pre
    /\ out = <<>>
    /\ rpc = "scored"

\* __main__ line 286 (not args.relative): compute_rank_ascent(scores)
ComputeRankAscent ==
    /\ rpc = "scored"
    /\ out' = compute_rank_ascent(scores)
    /\ rpc' = "ranked"
    /\ UNCHANGED <<scores, affil>>
    /\ UNCHANGED <<imputeVars, tractVars, pcaVars, transformVars, mainVars, loadVars, callVars>>

\* groupby('Affiliated City').groups: city -> the tracts of the city
groups(aff) == [c \in {aff[i] : i \in DOMAIN aff} |-> {i \in DOMAIN aff : aff[i] = c}]

\* line 279: scores.loc[idxs, :]
by_city_all(sc, idxs) == sc
by_city(sc, idxs) == [i \in idxs |-> sc[i]]

\* __main__ lines 273-282 (args.relative): compute_rank_ascent on the rows
\* of each city, the results concatenated.
RelativeRankAscent ==
    /\ rpc = "scored"
    /\ LET g == groups(affil)
           output_ == Column([c \in DOMAIN g |->
                                Column(compute_rank_ascent(by_city(scores, g[c])))])
       IN out' = [i \in DOMAIN scores |-> output_[affil[i]][i]]
    /\ rpc' = "ranked_relative"
    /\ UNCHANGED <<scores, affil>>
    /\ UNCHANGED <<imputeVars, tractVars, pcaVars, transformVars, mainVars, loadVars, callVars>>

----------------------------------------------------------------------------
(* do_pca: scaling, projection, and the join of the two periods *)

\* The values of a variable in the tables given to do_pca.
PcaValues == {0, 1, 4}

FracDiv(a, b) ==
    IF b.n > 0 THEN Frac(a.n * b.d, a.d * b.n) ELSE Frac(-(a.n * b.d), -(a.d * b.n))

\* np.nanpercentile(x, q) for q = 25 * q4, linear interpolation between the
\* two order statistics around position (n - 1) * q / 100 (counted from 0).
percentile(x, q4) ==
    LET n == Len(x)
        h == (n - 1) * q4
        lo == Kth(1..n, x, h \div 4 + 1)
        hi == IF h % 4 = 0 THEN lo ELSE Kth(1..n, x, h \div 4 + 2)
    IN Frac(4 * lo + (h % 4) * (hi - lo), 4)

\* sklearn _handle_zeros_in_scale: a scale of 0 is replaced by 1
handle_zeros_in_scale(sc) == IF sc = Frac(0, 1) THEN Frac(1, 1) ELSE sc

\* RobustScaler().fit(X): per column, center_ = the median and scale_ = the
\* range between the 25th and the 75th percentile.
RobustScaler_fit(X) ==
    [c \in PcaCols |->
        LET x == [i \in 1..Len(X) |-> X[i][c].v]
        IN [center |-> percentile(x, 2),
            scale |-> handle_zeros_in_scale(
                          FracSub(percentile(x, 3), percentile(x, 1)))]]

\* scaler.transform(X): (X - center_) / scale_
scaler_transform(sc, X) ==
    [i \in 1..Len(X) |->
        [c \in PcaCols |->
            Fin(FracDiv(FracSub(Frac(X[i][c].v, 1), sc[c].center), sc[c].scale))]]

\* line 104: the argument of scaler.fit
scaler_fit_arg_df1(a, d1) == d1
scaler_fit_arg(a, d1) == a

\* PCA(n_components=1).fit(array).transform(array): row i of the result is
\* the projection of row i of array on the first component; the projection
\* is kept as a term of the row.
pca_transform(a) == [i \in 1..Len(a) |-> [pc1 |-> a[i]]]

\* line 129: scores.loc[:len(df1) - 1, 0]
scores1(sc, n1) == SubSeq(sc, 1, n1)
\* line 130: scores.loc[len(df1):, 0]
scores2_head(sc, n1) == SubSeq(sc, 1, Len(sc) - n1)
scores2(sc, n1) == SubSeq(sc, n1 + 1, Len(sc))

\* the row of tract t in a frame with index idx
iloc(idx, t) == CHOOSE k \in 1..Len(idx) : idx[k] = t

\* lines 134-138: the scores are attached to df1 and df2 by position, and
\* the two frames are joined on their index (outer): one row per tract, the
\* columns of a period a tract is missing from being NaN.
merge(idx1, d1, s1, idx2, d2, s2) ==
    [t \in SeqToSet(idx1) \cup SeqToSet(idx2) |->
        LET k1 == iloc(idx1, t)
            k2 == iloc(idx2, t)
            in1 == t \in SeqToSet(idx1)
            in2 == t \in SeqToSet(idx2)
        IN [x_pre |-> IF in1 THEN d1[k1].x ELSE PNaN,
            y_pre |-> IF in1 THEN d1[k1].y ELSE PNaN,
            scores_pre |-> IF in1 THEN s1[k1] ELSE PNaN,
            x_post |-> IF in2 THEN d2[k2].x ELSE PNaN,
            y_post |-> IF in2 THEN d2[k2].y ELSE PNaN,
            scores_post |-> IF in2 THEN s2[k2] ELSE PNaN]]

\* The sorted sequences of n tract identifiers, out of one identifier more
\* than a table has rows.
Indexes(n) ==
    {SortedSeq(S) : S \in {T \in SUBSET (1..(MaxPcaRows + 1)) : Cardinality(T) = n}}

\* Tables of finite numbers: the first variable over PcaValues, the second
\* one constant.  do_pca is given any two indexes here; __main__ passes
\* tables with equal indexes.
InitScores ==
    /\ \E n1, n2 \in 1..MaxPcaRows :
        /\ pca_df1 \in [1..n1 -> [x : {Fin(v) : v \in PcaValues}, y : {Fin(1)}]]
        /\ pca_df2 \in [1..n2 -> [x : {Fin(v) : v \in PcaValues}, y : {Fin(1)}]]
        /\ pca_idx1 \in Indexes(n1)
        /\ pca_idx2 \in Indexes(n2)
    /\ array = <<>>
    /\ ppc = "start"
    /\ perr = ""
    /\ scaler = <<>> /\ pscores = <<>> /\ merged = <<>>

\* lines 104-105: scaler.fit(array) and array = scaler.transform(array);
\* fit's input validation rejects an infinity.
ScaleArray ==
    /\ ppc = "scaler_fit"
    /\ IF \E x \in Cells(array) : ~isfinite(x)
       THEN /\ ppc' = "failed"
            /\ perr' = "ValueError: Input contains infinity"
            /\ UNCHANGED <<array, scaler>>
       ELSE /\ scaler' = RobustScaler_fit(scaler_fit_arg(array, pca_df1))
            /\ array' = scaler_transform(scaler', array)
            /\ ppc' = "scaled"
            /\ perr' = perr
    /\ UNCHANGED <<pca_df1, pca_df2, pca_idx1, pca_idx2, pscores, merged>>
    /\ UNCHANGED <<imputeVars, tractVars, rankVars, transformVars, mainVars, loadVars, callVars>>

\* lines 123-125: the first component's scores of the rows of array
ProjectScores ==
    /\ ppc = "scaled"
    /\ pscores' = pca_transform(array)
    /\ ppc' = "projected"
    /\ UNCHANGED <<pca_df1, pca_df2, array, perr, pca_idx1, pca_idx2, scaler,
                   merged>>
    /\ UNCHANGED <<imputeVars, tractVars, rankVars, transformVars, mainVars, loadVars, callVars>>

\* lines 129-140: the split of the scores, their attachment and the join
MergeScores ==
    /\ ppc = "projected"
    /\ merged' = merge(pca_idx1, pca_df1, scores1(pscores, Len(pca_df1)),
                       pca_idx2, pca_df2, scores2(pscores, Len(pca_df1)))
    /\ ppc' = "returned"
    /\ UNCHANGED <<pca_df1, pca_df2, array, perr, pca_idx1, pca_idx2, scaler,
                   pscores>>
    /\ UNCHANGED <<imputeVars, tractVars, rankVars, transformVars, mainVars, loadVars, callVars>>

----------------------------------------------------------------------------
(* transform *)

\* rows of one period's table in the model of transform
MaxTransformRows == 1

\* The columns of get_pca_vars in the model: one that is passed through and
\* the two designated ones ('median' in the name, line 230).
TfColumns == {"per_grads", "median_hh_inc", "median_mhc"}
columns == {"median_hh_inc", "median_mhc"}

\* The values of a designated column: a negative one, zero and two cubes.
TransformValues == {-8, 0, 8, 27}

\* np.log: the logarithm of a positive number is kept as the term ln(x);
\* log(0) is -inf and the log of a negative number is NaN (with a warning).
np_log(c) ==
    IF c.k # "fin" THEN c
    ELSE IF c.v > 0 THEN [k |-> "ln", v |-> c.v]
    ELSE IF c.v = 0 THEN NegInf
    ELSE PNaN

\* np.power(x, 2.0/3.0): NaN for a negative base; the square of the cube
\* root otherwise, exact when x is a cube.
np_power_2_3(c) ==
    IF c.k # "fin" THEN c
    ELSE IF c.v < 0 THEN PNaN
    ELSE IF \E r \in 0..c.v : r * r * r = c.v
    THEN Fin((CHOOSE r \in 0..c.v : r * r * r = c.v) ^ 2)
    ELSE [k |-> "pow2/3", v |-> c.v]

\* scipy.stats.boxcox(x): the lambda that maximises the log-likelihood of
\* the data x, kept as a term of x.
boxcox_normmax(x) == [normmax |-> x]
\* boxcox with a given lambda: the transformed values, terms of x and lambda
boxcox_lmbda(x, lmd) ==
    [t \in DOMAIN x |-> [k |-> "boxcox", v |-> x[t].v, lmbda |-> lmd]]
\* boxcox raises ValueError('Data must be positive.')
boxcox_rejects(x) == \E t \in DOMAIN x : x[t].k # "fin" \/ x[t].v <= 0

\* line 68: values1, lmd = boxcox(df1[col])
values1(x1) == boxcox_lmbda(x1, boxcox_normmax(x1))
\* line 69: values2 = boxcox(df2[col], lmbda=lmd)
values2_refit(x1, x2) == boxcox_lmbda(x2, boxcox_normmax(x2))
values2(x1, x2) == boxcox_lmbda(x2, boxcox_normmax(x1))

\* line 78: col == 'median_hh_inc'
is_income_never(col) == FALSE
is_income(col) == col = "median_hh_inc"

\* df[col]: a column of a table
col_of(d, col) == [t \in DOMAIN d |-> d[t][col]]

\* The table d with each designated column col replaced by the column
\* new[col] under the name col + suffix (lines 70-73, 79-86).
replace_columns(d, new, suffix) ==
    [t \in DOMAIN d |->
        [c \in (TfColumns \ columns) \cup {col \o suffix : col \in columns} |->
            IF c \in TfColumns \ columns
            THEN d[t][c]
            ELSE LET col == CHOOSE x \in columns : x \o suffix = c
                 IN new[col][t]]]

\* lines 77-83: the transformed column under the 'in_between' policy
in_between(d, col) ==
    [t \in DOMAIN d |->
        IF is_income(col) THEN np_power_2_3(d[t][col]) ELSE np_log(d[t][col])]

InitTransform ==
    /\ transformation \in {"box_cox", "in_between", "untransformed"}
    /\ \E n1, n2 \in 1..MaxTransformRows :
        /\ tf_df1 \in [1..n1 -> [per_grads : {Fin(5)},
                                 median_hh_inc : {Fin(v) : v \in TransformValues},
                                 median_mhc : {Fin(v) : v \in TransformValues}]]
        /\ tf_df2 \in [1..n2 -> [per_grads : {Fin(7)},
                                 median_hh_inc : {Fin(v) : v \in TransformValues},
                                 median_mhc : {Fin(v) : v \in TransformValues}]]
    /\ transformed = <<>>
    /\ xpc = "gathered"

\* transform (lines 60-88).  Under 'box_cox' the fit on df1's column raises
\* on data that is not positive; whether boxcox with a given lambda raises
\* on such data in df2 too depends on the scipy release (strict).
Transform ==
    /\ xpc = "gathered"
    /\ \E strict \in BOOLEAN :
        IF transformation = "box_cox"
        THEN IF \E col \in columns :
                    \/ boxcox_rejects(col_of(tf_df1, col))
                    \/ strict /\ boxcox_rejects(col_of(tf_df2, col))
             THEN xpc' = "failed" /\ transformed' = <<>>
             ELSE /\ xpc' = "transformed"
                  /\ transformed' =
                        << replace_columns(tf_df1,
                              [col \in columns |-> values1(col_of(tf_df1, col))],
                              "_box"),
                           replace_columns(tf_df2,
                              [col \in columns |->
                                  values2(col_of(tf_df1, col), col_of(tf_df2, col))],
                              "_box") >>
        ELSE IF transformation = "in_between"
        THEN /\ xpc' = "transformed"
             /\ transformed' =
                   << replace_columns(tf_df1,
                         [col \in columns |-> in_between(tf_df1, col)], "_log"),
                      replace_columns(tf_df2,
                         [col \in columns |-> in_between(tf_df2, col)], "_log") >>
        ELSE /\ xpc' = "transformed"
             /\ transformed' = <<tf_df1, tf_df2>>
    /\ UNCHANGED <<transformation, tf_df1, tf_df2>>
    /\ UNCHANGED <<imputeVars, tractVars, pcaVars, rankVars, mainVars, loadVars, callVars>>

----------------------------------------------------------------------------
(* __main__: the PCA, rank/ascent and saving steps of a run *)

\* tracts of the reconciled tables in the model of the run
NumMainTracts == 3

\* The values of 'Affiliated City', in the sorted order in which groupby
\* yields its groups.
MainCities == <<"Atlanta", "Austin", "Boston">>

\* dataSet1.data.groupby('Affiliated City').groups: the cities present, in
\* sorted order, and the tracts of each.
group_keys(idx, cty) ==
    SelectSeq(MainCities, LAMBDA c : \E t \in idx : cty[t] = c)
group_idxs(idx, cty, c) == {t \in idx : cty[t] = c}

\* do_pca on the rows R: line 99 fails on a NaN cell.
do_pca_fails(R, nans) == R \cap nans # {}

\* The files a run writes.
CityLoadingsFile(c) == [dir |-> "loadings/cities", file |-> "loadings", city |-> c]
LoadingsFile == [dir |-> "loadings", file |-> "loadings", city |-> ""]
OutFile(d, f) == [dir |-> d, file |-> f, city |-> ""]

\* lines 295-335: the files of the saving step for the options a
saved_files(a) ==
    (IF a.city
     THEN {OutFile("city_scores", "inputs"), OutFile("city_scores", "ses")}
     ELSE {})
    \cup (IF a.relative
          THEN {OutFile("relative_rank", "inputs"), OutFile("relative_rank", "ses")}
          ELSE {})
    \cup (IF ~a.relative /\ ~a.city /\ ~a.exclude
          THEN {OutFile("scores", "inputs"), OutFile("scores", "ses")}
          ELSE {})
    \cup (IF a.exclude
          THEN {OutFile("without_mhc", "inputs"), OutFile("without_mhc", "ses"),
                OutFile("without_mhc/loadings", "loadings")}
          ELSE {})

InitMain ==
    /\ args \in [city : BOOLEAN, relative : BOOLEAN, exclude : BOOLEAN]
    /\ main_index = 1..NumMainTracts
    /\ \E f \in Monotone(NumMainTracts, Len(MainCities)) :
        main_city = [t \in main_index |-> MainCities[f[t]]]
    /\ nan_tracts \in SUBSET main_index
    /\ cities = <<>>
    /\ fitted = {}
    /\ main_scores = <<>>
    /\ main_output = <<>>
    /\ files = {}
    /\ mpc = "pca"
    /\ merr = ""

\* lines 261-269 (not args.city): one do_pca on the whole tables; the
\* loadings are written unless a variable is excluded.
MainDoPca ==
    /\ mpc = "pca"
    /\ ~args.city
    /\ IF do_pca_fails(main_index, nan_tracts)
       THEN /\ mpc' = "failed"
            /\ merr' = "Error: array contains NaN values"
            /\ UNCHANGED <<fitted, main_scores, files>>
       ELSE /\ mpc' = "rank"
            /\ fitted' = {""}
            /\ main_scores' = SortedSeq(main_index)
            /\ files' = IF args.exclude THEN files ELSE files \cup {LoadingsFile}
            /\ merr' = merr
    /\ UNCHANGED <<args, main_index, main_city, nan_tracts, cities, main_output>>
    /\ UNCHANGED <<imputeVars, tractVars, pcaVars, rankVars, transformVars, loadVars, callVars>>

\* lines 238-245 (args.city): the empty scores frame and the groups.
MainCityBegin ==
    /\ mpc = "pca"
    /\ args.city
    /\ cities' = group_keys(main_index, main_city)
    /\ main_scores' = <<>>
    /\ mpc' = "city_loop"
    /\ UNCHANGED <<args, main_index, main_city, nan_tracts, fitted, main_output,
                   files, merr>>
    /\ UNCHANGED <<imputeVars, tractVars, pcaVars, rankVars, transformVars, loadVars, callVars>>

\* lines 247-259: one iteration of the loop over the cities; after the last
\* one the run goes on to the rank step.
MainCityStep ==
    /\ mpc = "city_loop"
    /\ cities # <<>>
    /\ LET city == Head(cities)
           idxs == group_idxs(main_index, main_city, city)
           next == IF Len(cities) = 1 THEN "rank" ELSE "city_loop"
       IN IF city = "Austin"
          THEN /\ mpc' = next
               /\ cities' = Tail(cities)
               /\ UNCHANGED <<fitted, main_scores, files, merr>>
          ELSE IF do_pca_fails(idxs, nan_tracts)
          THEN /\ mpc' = "failed"
               /\ merr' = "Error: array contains NaN values"
               /\ UNCHANGED <<cities, fitted, main_scores, files>>
          ELSE /\ mpc' = next
               /\ cities' = Tail(cities)
               /\ fitted' = fitted \cup {city}
               /\ main_scores' = main_scores \o SortedSeq(idxs)
               /\ files' = files \cup {CityLoadingsFile(city)}
               /\ merr' = merr
    /\ UNCHANGED <<args, main_index, main_city, nan_tracts, main_output>>
    /\ UNCHANGED <<imputeVars, tractVars, pcaVars, rankVars, transformVars, loadVars, callVars>>

\* lines 284-286 (not args.relative): compute_rank_ascent(scores); an empty
\* scores frame has no column scores_pre.
MainRank ==
    /\ mpc = "rank"
    /\ ~args.relative
    /\ IF main_scores = <<>>
       THEN /\ mpc' = "failed"
            /\ merr' = "KeyError: scores_pre"
            /\ UNCHANGED main_output
       ELSE /\ mpc' = "save"
            /\ main_output' = main_scores
            /\ merr' = merr
    /\ UNCHANGED <<args, main_index, main_city, nan_tracts, cities, fitted,
                   main_scores, files>>
    /\ UNCHANGED <<imputeVars, tractVars, pcaVars, rankVars, transformVars, loadVars, callVars>>

\* lines 273-278 (args.relative): the empty frames and the groups.
MainRelativeBegin ==
    /\ mpc = "rank"
    /\ args.relative
    /\ cities' = group_keys(main_index, main_city)
    /\ main_output' = <<>>
    /\ mpc' = "relative_loop"
    /\ UNCHANGED <<args, main_index, main_city, nan_tracts, fitted, main_scores,
                   files, merr>>
    /\ UNCHANGED <<imputeVars, tractVars, pcaVars, rankVars, transformVars, loadVars, callVars>>

\* lines 278-282: one iteration of the loop over the groups;
\* scores.loc[idxs, :] raises KeyError when the scores frame has none of
\* the labels.
MainRelativeStep ==
    /\ mpc = "relative_loop"
    /\ cities # <<>>
    /\ LET idxs == group_idxs(main_index, main_city, Head(cities))
       IN IF idxs \cap SeqToSet(main_scores) = {}
          THEN /\ mpc' = "failed"
               /\ merr' = "KeyError: not in index"
               /\ UNCHANGED <<cities, main_output>>
          ELSE /\ mpc' = IF Len(cities) = 1 THEN "save" ELSE "relative_loop"
               /\ cities' = Tail(cities)
               /\ main_output' = main_output \o SortedSeq(idxs)
               /\ merr' = merr
    /\ UNCHANGED <<args, main_index, main_city, nan_tracts, fitted, main_scores,
                   files>>
    /\ UNCHANGED <<imputeVars, tractVars, pcaVars, rankVars, transformVars, loadVars, callVars>>

\* lines 288-335: the inputs, scores and loadings files of the options.
MainSave ==
    /\ mpc = "save"
    /\ files' = files \cup saved_files(args)
    /\ mpc' = "done"
    /\ UNCHANGED <<args, main_index, main_city, nan_tracts, cities, fitted,
                   main_scores, main_output, merr>>
    /\ UNCHANGED <<imputeVars, tractVars, pcaVars, rankVars, transformVars, loadVars, callVars>>

----------------------------------------------------------------------------
(* Specifications: one per stage; the other stages' variables are idle *)

IdleImpute ==
    /\ index = {} /\ data = <<>> /\ county = <<>> /\ geo = {} /\ touches = {}
    /\ ci = 1 /\ pc = "off" /\ df = <<>> /\ w = <<>> /\ cols = <<>>
    /\ tracts = {} /\ data0 = <<>> /\ filled = {}

IdleTracts ==
    /\ ds1 = ACSData({}) /\ ds2 = ACSData({}) /\ tpc = "off" /\ loaded = <<{}, {}>>

IdlePca ==
    /\ pca_df1 = <<>> /\ pca_df2 = <<>> /\ array = <<>> /\ ppc = "off" /\ perr = ""
    /\ pca_idx1 = <<>> /\ pca_idx2 = <<>> /\ scaler = <<>> /\ pscores = <<>>
    /\ merged = <<>>

IdleRank ==
    /\ scores = <<>> /\ affil = <<>> /\ out = <<>> /\ rpc = "off"

IdleTransform ==
    /\ transformation = "" /\ tf_df1 = <<>> /\ tf_df2 = <<>>
    /\ transformed = <<>> /\ xpc = "off"

IdleMain ==
    /\ args = [city |-> FALSE, relative |-> FALSE, exclude |-> FALSE]
    /\ main_index = {} /\ main_city = <<>> /\ nan_tracts = {} /\ cities = <<>>
    /\ fitted = {} /\ main_scores = <<>> /\ main_output = <<>> /\ files = {}
    /\ mpc = "off" /\ merr = ""

IdleLoad ==
    /\ raw = <<>> /\ raw0 = <<>>

IdleCall ==
    /\ call = <<>>

\* the imputation of one period's table
Init == InitImpute /\ IdleTracts /\ IdlePca /\ IdleRank /\ IdleTransform /\ IdleMain
    /\ IdleLoad /\ IdleCall
Next == BeginFillna \/ FillTract \/ FinishImpute
Spec == Init /\ [][Next]_vars

\* the constructor of one period's table, followed by the imputation
LoadInit ==
    InitLoad /\ IdleTracts /\ IdlePca /\ IdleRank /\ IdleTransform /\ IdleMain
    /\ IdleCall
LoadNext ==
    \/ ConvertEncoding \/ DropUnpopulated
    \/ BeginFillna \/ FillTract \/ FinishImpute
SpecLoad == LoadInit /\ [][LoadNext]_vars

\* one call of fillna of src/preprocessing.py or of src/PCA/dataset.py
FillnaInit ==
    InitImpute /\ IdleTracts /\ IdlePca /\ IdleRank /\ IdleTransform /\ IdleMain
    /\ IdleLoad /\ IdleCall
FillnaNext == CallPreprocessingFillna \/ CallPCAFillna
SpecFillna == FillnaInit /\ [][FillnaNext]_vars

\* the fill loop of plot_local_moran_time_lapse for one year
VisInit ==
    InitVis /\ IdleTracts /\ IdlePca /\ IdleRank /\ IdleTransform /\ IdleMain
    /\ IdleLoad /\ IdleCall
VisNext == VisSubset \/ VisFillTract
SpecVis == VisInit /\ [][VisNext]_vars

\* the reconciliation of the tract sets of the two periods
TractsInit ==
    IdleImpute /\ InitTracts /\ IdlePca /\ IdleRank /\ IdleTransform /\ IdleMain
    /\ IdleLoad /\ IdleCall
TractsNext == MainCheckTracts \/ MainMakeTractsSame
SpecTracts == TractsInit /\ [][TractsNext]_vars

\* the reconciliation of the tract sets in src/PCA
TractsPCANext == PCAMainCheckTracts \/ PCAMainDropDissimilar
SpecTractsPCA == TractsInit /\ [][TractsPCANext]_vars

\* do_pca
PcaInit ==
    IdleImpute /\ IdleTracts /\ InitPca /\ IdleRank /\ IdleTransform /\ IdleMain
    /\ IdleLoad /\ IdleCall
PcaNext ==
    \/ Concatenate \/ AssertFinite \/ AssertNotNaN \/ FitScaler
    \/ ScaleArray \/ ProjectScores \/ MergeScores
SpecPca == PcaInit /\ [][PcaNext]_vars

\* do_pca on tables of finite numbers
ScoresInit ==
    IdleImpute /\ IdleTracts /\ InitScores /\ IdleRank /\ IdleTransform /\ IdleMain
    /\ IdleLoad /\ IdleCall
SpecScores == ScoresInit /\ [][PcaNext]_vars

\* compute_rank_ascent
RankInit ==
    IdleImpute /\ IdleTracts /\ IdlePca /\ InitRank /\ IdleTransform /\ IdleMain
    /\ IdleLoad /\ IdleCall
RankNext == ComputeRankAscent \/ RelativeRankAscent
SpecRank == RankInit /\ [][RankNext]_vars

\* the PCA, rank/ascent and saving steps of a run
MainInit ==
    IdleImpute /\ IdleTracts /\ IdlePca /\ IdleRank /\ IdleTransform /\ InitMain
    /\ IdleLoad /\ IdleCall
MainNext ==
    \/ MainDoPca \/ MainCityBegin \/ MainCityStep
    \/ MainRank \/ MainRelativeBegin \/ MainRelativeStep \/ MainSave
\* transform
TransformInit ==
    IdleImpute /\ IdleTracts /\ IdlePca /\ IdleRank /\ InitTransform /\ IdleMain
    /\ IdleLoad /\ IdleCall
TransformNext == Transform
SpecTransform == TransformInit /\ [][TransformNext]_vars

SpecMain == MainInit /\ [][MainNext]_vars

----------------------------------------------------------------------------
(* The imputation stated over the table as it was before any fill *)

\* The tracts sharing the county of t, those of them with a geometry (the
\* rows of the merged frame), and the neighbours of t among the latter.
CountyRows(t) == {u \in index : county[u] = county[t]}
Merged(t) == {u \in CountyRows(t) : u \in geo}
Nbrs(t) == {u \in Merged(t) \ {t} : {t, u} \in touches}

Known0(S, c) == {u \in S : data0[u][c] # NaN}
Int0(c) == [u \in index |-> data0[u][c].num]

\* The median of the pre-fill known values of column c over the tracts S:
\* the midpoint of the lower and the upper median.
Median0(S, c) ==
    LET K == Known0(S, c)
        n == Cardinality(K)
        AtMost(x) == Cardinality({u \in K : Int0(c)[u] <= x})
        AtLeast(x) == Cardinality({u \in K : Int0(c)[u] >= x})
        vals == {Int0(c)[u] : u \in K}
        lo == CHOOSE x \in vals : 2 * AtMost(x) >= n
                                  /\ \A y \in vals : 2 * AtMost(y) >= n => x <= y
        hi == CHOOSE x \in vals : 2 * AtLeast(x) >= n
                                  /\ \A y \in vals : 2 * AtLeast(y) >= n => x >= y
    IN IF n = 0 THEN NaN ELSE Half(lo + hi)

\* The fill of cell <<t, c>> computed from the pre-fill table alone.
PreFill(t, c) ==
    IF Known0(Nbrs(t), c) # {}
    THEN gmean(Known0(Nbrs(t), c), Int0(c))
    ELSE median(Known0(Merged(t), c), Int0(c))

AllDone == pc = "done"

----------------------------------------------------------------------------
(* Claims *)

C2_NoMissingLeft ==
    AllDone =>
        \A c \in ColSet :
            (\E t \in index : data0[t][c] # NaN)
            => \A t \in index : data[t][c] # NaN

\* C3: a tract with at least one known neighbour value (all of them
\* positive, where the geometric mean is defined) is filled with the n-th
\* root of the product of exactly the known neighbour values, n being their
\* number: fill ^ n = product.
C3_GeometricMean ==
    \A cell \in filled :
        LET t == cell[1]
            c == cell[2]
            K == Known0(Nbrs(t), c)
            n == Cardinality(K)
            v == data[t][c]
        IN (K # {} /\ \A u \in K : Int0(c)[u] > 0)
           => /\ v.den = 1
              /\ v.root >= 1
              /\ n % v.root = 0
              /\ v.num ^ (n \div v.root) = Product(K, Int0(c))

\* known neighbour values [4, 9], next to a neighbour that misses the
\* column, give 6
C3_Witness ==
    \E cell \in filled :
        LET t == cell[1]
            c == cell[2]
            K == Known0(Nbrs(t), c)
        IN /\ Cardinality(K) = 2
           /\ {Int0(c)[u] : u \in K} = {4, 9}
           /\ Nbrs(t) # K
           /\ data[t][c] = Num(6)

C5_AllMissingFails ==
    \A c \in ColSet :
        (\A t \in index : data0[t][c] = NaN)
        => /\ ~AllDone
           /\ \A t \in index : <<t, c>> \notin filled

\* C6 (as claimed): when a known neighbour value is zero or negative the
\* fill is not the coerced geometric mean: the imputation fails (the model
\* of the code has no such step) or takes the group-median path.
C6_ExplicitDecision ==
    \A cell \in filled :
        LET t == cell[1]
            c == cell[2]
        IN (\E u \in Known0(Nbrs(t), c) : Int0(c)[u] <= 0)
           => data[t][c] = Median0(Merged(t), c)

\* C7: on a table without missing values the imputation changes no cell,
\* row or column and writes nothing.
C7_CompleteUnchanged ==
    (\A t \in index : \A c \in ColSet : data0[t][c] # NaN)
    => /\ data = data0
       /\ DOMAIN data = index
       /\ filled = {}
       /\ pc # "fill"

C7_Witness ==
    /\ AllDone
    /\ \A t \in index : \A c \in ColSet : data0[t][c] # NaN
    /\ \E t \in index : data0[t]["c1"] = Num(0)

\* C8 (as claimed): do_pca fails before the scaler is fitted whenever the
\* stacked matrix holds an infinity or a NaN, be it in a single cell.
C8_FailsOnNonFinite ==
    (ppc = "scaler_fit") => \A x \in Cells(array) : isfinite(x)

\* C9: a tract-set mismatch does not stop the run, and after the
\* reconciliation both tables hold exactly the tracts present in both
\* periods, with the cached index and row count of both objects matching
\* the reduced tables.
C9_Reconciled ==
    /\ (tpc = "mismatch") => ENABLED MainMakeTractsSame
    /\ (tpc = "gather") =>
        LET both == loaded[1] \cap loaded[2] IN
        /\ SeqToSet(ds1.rows) = both
        /\ SeqToSet(ds2.rows) = both
        /\ Len(ds1.rows) = Cardinality(both)
        /\ Len(ds2.rows) = Cardinality(both)
        /\ ds1.index = ds1.rows /\ ds1.nrows = Len(ds1.rows)
        /\ ds2.index = ds2.rows /\ ds2.nrows = Len(ds2.rows)

C9_Witness ==
    /\ tpc = "gather"
    /\ loaded[1] \ loaded[2] # {}
    /\ loaded[2] \ loaded[1] # {}
    /\ loaded[1] \cap loaded[2] # {}
    /\ ds1.nrows < Cardinality(loaded[1])
    /\ ds2.nrows < Cardinality(loaded[2])

\* The rank column of a period and the scores it ranks.
Periods == {"pre", "post"}
RankOf(p, i) == IF p = "pre" THEN out[i].rank_pre ELSE out[i].rank_post
Higher(p, i) == {j \in DOMAIN scores : scores[j][p] > scores[i][p]}
Ties(p, i) == {j \in DOMAIN scores : scores[j][p] = scores[i][p]}

\* C10 (as claimed): the rank is the dense descending rank: the highest
\* score has rank 1, tied scores share one rank, and the ranks in use are
\* 1..k, k the number of distinct scores.
C10_DenseRank ==
    (rpc = "ranked") =>
        \A p \in Periods :
            LET S == DOMAIN scores
                k == Cardinality({scores[i][p] : i \in S})
            IN /\ \A i \in S : Higher(p, i) = {} => RankOf(p, i) = Frac(1, 1)
               /\ \A i, j \in S : scores[i][p] = scores[j][p] => RankOf(p, i) = RankOf(p, j)
               /\ {RankOf(p, i) : i \in S} = {Frac(r, 1) : r \in 1..k}

\* C10 (amended): the rank is the average descending rank: the number of
\* strictly higher scores plus (ties + 1) / 2, ties counting the tract
\* itself; a higher score has a smaller rank, tied scores share one rank, a
\* score that is alone the highest has rank 1, and distinct scores are
\* ranked 1..n.
C10_AverageRank ==
    (rpc = "ranked") =>
        \A p \in Periods :
            LET S == DOMAIN scores IN
            /\ \A i \in S :
                RankOf(p, i) = Frac(2 * Cardinality(Higher(p, i))
                                    + Cardinality(Ties(p, i)) + 1, 2)
            /\ \A i, j \in S :
                /\ scores[i][p] = scores[j][p] => RankOf(p, i) = RankOf(p, j)
                /\ scores[i][p] > scores[j][p] => Greater(RankOf(p, j), RankOf(p, i))
            /\ \A i \in S :
                (Higher(p, i) = {} /\ Ties(p, i) = {i}) => RankOf(p, i) = Frac(1, 1)
            /\ (\A i \in S : Ties(p, i) = {i})
               => {RankOf(p, i) : i \in S} = {Frac(r, 1) : r \in 1..Cardinality(S)}

\* two tracts tied for the highest score of three share rank 3/2, the third
\* has rank 3
C10_Witness ==
    /\ rpc = "ranked"
    /\ Cardinality(DOMAIN scores) = 3
    /\ \E i, j, l \in DOMAIN scores :
        /\ i # j
        /\ scores[i].pre = scores[j].pre
        /\ scores[l].pre < scores[i].pre
        /\ out[i].rank_pre = Frac(3, 2)
        /\ out[j].rank_pre = Frac(3, 2)
        /\ out[l].rank_pre = Frac(3, 1)

\* The percentile-rank column of a period.
PctOf(p, i) == IF p = "pre" THEN out[i].scores_pr_pre ELSE out[i].scores_pr_post
Zero == Frac(0, 1)

\* C11: a tract with rank 1 has the maximum score of the period; a tract
\* with a larger rank number never has a larger percentile rank (and has a
\* smaller one); tied scores receive equal percentile ranks.
C11_RankPercentileMonotone ==
    (rpc = "ranked") =>
        \A p \in Periods : \A i \in DOMAIN scores :
            /\ RankOf(p, i) = Frac(1, 1)
               => \A j \in DOMAIN scores : scores[j][p] <= scores[i][p]
            /\ \A j \in DOMAIN scores :
                /\ Greater(RankOf(p, i), RankOf(p, j))
                   => Greater(PctOf(p, j), PctOf(p, i))
                /\ scores[i][p] = scores[j][p] => PctOf(p, i) = PctOf(p, j)

\* of three tracts one is alone at the top (rank 1, percentile 100) and the
\* two others are tied below it with one smaller percentile
C11_Witness ==
    /\ rpc = "ranked"
    /\ \E i, j, l \in DOMAIN scores :
        /\ j # l
        /\ out[i].rank_pre = Frac(1, 1)
        /\ out[i].scores_pr_pre = Frac(100, 1)
        /\ scores[j].pre = scores[l].pre
        /\ out[j].rank_pre = Frac(5, 2)
        /\ out[j].scores_pr_pre = out[l].scores_pr_pre
        /\ Greater(out[i].scores_pr_pre, out[j].scores_pr_pre)

\* C12 (as claimed): two tracts that have one and the same score, in both
\* periods, have score ascent 0 and percentile-rank ascent 0.
C12_AscentsZero ==
    (rpc = "ranked") =>
        \A i, j \in DOMAIN scores :
            ( /\ i # j
              /\ scores[i].pre = scores[j].pre /\ scores[i].post = scores[j].post
              /\ scores[i].pre = scores[i].post )
            => /\ out[i].scores_asc = 0
               /\ out[i].scores_pr_asc = Zero

\* C12 (amended): two tracts with identical scores in both periods have
\* equal score ascents and equal percentile-rank ascents; the score ascent
\* of a tract whose score is the same in both periods is 0; the
\* percentile-rank ascent of a tract is 0 when the tracts scoring above it
\* and the tracts tied with it are the same in both periods.
C12_EqualAscents ==
    (rpc = "ranked") =>
        \A i \in DOMAIN scores :
            /\ \A j \in DOMAIN scores :
                (scores[i].pre = scores[j].pre /\ scores[i].post = scores[j].post)
                => /\ out[i].scores_asc = out[j].scores_asc
                   /\ out[i].scores_pr_asc = out[j].scores_pr_asc
            /\ scores[i].pre = scores[i].post => out[i].scores_asc = 0
            /\ (Higher("pre", i) = Higher("post", i) /\ Ties("pre", i) = Ties("post", i))
               => out[i].scores_pr_asc = Zero

\* two tracts keep one common score while a third one overtakes them: their
\* score ascents are 0 and their percentile-rank ascents are equal, not 0
C12_Witness ==
    /\ rpc = "ranked"
    /\ \E i, j, l \in DOMAIN scores :
        /\ i # j
        /\ scores[i].pre = scores[j].pre /\ scores[i].post = scores[j].post
        /\ scores[i].pre = scores[i].post
        /\ scores[l].pre < scores[i].pre /\ scores[l].post > scores[i].post
        /\ out[i].scores_asc = 0 /\ out[j].scores_asc = 0
        /\ out[i].scores_pr_asc = out[j].scores_pr_asc
        /\ out[i].scores_pr_asc # Zero

\* C13: in every row of the joined table the score ascent is the row's
\* period-2 score minus its period-1 score, and the percentile-rank ascent
\* is the row's period-2 percentile rank minus its period-1 percentile rank.
C13_AscentIsDifference ==
    (rpc \in {"ranked", "ranked_relative"}) =>
        \A i \in DOMAIN scores :
            /\ out[i].scores_asc + scores[i].pre = scores[i].post
            /\ LET a == out[i].scores_pr_asc
                   q == out[i].scores_pr_post
                   r == out[i].scores_pr_pre
               IN a.n * q.d * r.d = (q.n * r.d - r.n * q.d) * a.d

\* a tract whose score rises while its percentile rank falls
C13_Witness ==
    /\ rpc = "ranked"
    /\ \E i \in DOMAIN scores :
        /\ out[i].scores_asc = 1
        /\ out[i].scores_pr_pre = Frac(75, 1)
        /\ out[i].scores_pr_post = Frac(50, 1)
        /\ out[i].scores_pr_asc = Frac(-25, 1)

\* The tracts of tract i's city, and those of them that score higher, the
\* same or lower in period p.
CityOf(i) == {j \in DOMAIN scores : affil[j] = affil[i]}
HigherIn(p, i) == {j \in CityOf(i) : scores[j][p] > scores[i][p]}
TiesIn(p, i) == {j \in CityOf(i) : scores[j][p] = scores[i][p]}
LowerIn(p, i) == {j \in CityOf(i) : scores[j][p] < scores[i][p]}

\* C14: in relative mode the rank of a tract is its average descending rank
\* among the tracts of its city and its percentile rank the percentile of
\* that rank among them, so both are determined by the scores of the city
\* alone; the score ascent is the one of the non-relative mode.
C14_RelativeWithinCity ==
    (rpc = "ranked_relative") =>
        \A i \in DOMAIN scores :
            /\ \A p \in Periods :
                /\ RankOf(p, i) = Frac(2 * Cardinality(HigherIn(p, i))
                                       + Cardinality(TiesIn(p, i)) + 1, 2)
                /\ PctOf(p, i) = Frac(100 * (2 * Cardinality(LowerIn(p, i))
                                             + Cardinality(TiesIn(p, i)) + 1),
                                      2 * Cardinality(CityOf(i)))
            /\ out[i].scores_asc = scores[i].post - scores[i].pre

\* a tract that is first in its city although a tract of the other city
\* scores higher
C14_Witness ==
    /\ rpc = "ranked_relative"
    /\ \E i, j, l \in DOMAIN scores :
        /\ affil[i] # affil[j] /\ affil[i] = affil[l] /\ i # l
        /\ scores[j].pre > scores[i].pre /\ scores[i].pre > scores[l].pre
        /\ out[i].rank_pre = Frac(1, 1)
        /\ out[i].scores_pr_pre = Frac(100, 1)
        /\ out[l].rank_pre = Frac(2, 1)
        /\ out[j].rank_pre = Frac(1, 1)

\* C15 (as claimed): in by-city mode, once the loop over the cities has
\* ended, do_pca has been fitted for every city of the period-1 table and
\* the scores frame holds every tract exactly once.
C15_EveryCityScored ==
    (args.city /\ mpc \in {"rank", "relative_loop", "save", "done"}) =>
        /\ fitted = {main_city[t] : t \in main_index}
        /\ \A t \in main_index :
            Cardinality({k \in 1..Len(main_scores) : main_scores[k] = t}) = 1

\* C16 (as claimed): a run that has failed has written no file.
C16_NoPartialOutput ==
    (mpc = "failed") => files = {}

\* The tables transform was given and those it returned, by period.
TfIn(k) == IF k = 1 THEN tf_df1 ELSE tf_df2
TfOut(k) == transformed[k]

\* C17: transform returns tables with the rows it was given; each
\* designated column is replaced by one renamed column and the other
\* columns are unchanged; under 'in_between' the income column holds
\* x^(2/3) (for x >= 0: the y with y^3 = x^2) and the other designated
\* column ln(x) (for x > 0), equal inputs giving equal outputs in the two
\* periods; under 'untransformed' the tables are returned as they were.
C17_TransformColumns ==
    (xpc = "transformed") =>
        /\ \A k \in 1..2 :
            /\ DOMAIN TfOut(k) = DOMAIN TfIn(k)
            /\ \A t \in DOMAIN TfIn(k) :
                /\ TfOut(k)[t].per_grads = TfIn(k)[t].per_grads
                /\ transformation = "untransformed" => TfOut(k)[t] = TfIn(k)[t]
                /\ transformation = "box_cox" =>
                    DOMAIN TfOut(k)[t]
                        = {"per_grads", "median_hh_inc_box", "median_mhc_box"}
                /\ transformation = "in_between" =>
                    /\ DOMAIN TfOut(k)[t]
                        = {"per_grads", "median_hh_inc_log", "median_mhc_log"}
                    /\ LET x == TfIn(k)[t].median_hh_inc.v
                           y == TfOut(k)[t].median_hh_inc_log
                       IN x >= 0 => (y.k = "fin" /\ y.v >= 0 /\ y.v ^ 3 = x ^ 2)
                    /\ LET x == TfIn(k)[t].median_mhc.v
                           y == TfOut(k)[t].median_mhc_log
                       IN x > 0 => y = [k |-> "ln", v |-> x]
        /\ transformation = "in_between" =>
            \A t1 \in DOMAIN tf_df1 : \A t2 \in DOMAIN tf_df2 :
                /\ tf_df1[t1].median_hh_inc = tf_df2[t2].median_hh_inc
                   => TfOut(1)[t1].median_hh_inc_log = TfOut(2)[t2].median_hh_inc_log
                /\ tf_df1[t1].median_mhc = tf_df2[t2].median_mhc
                   => TfOut(1)[t1].median_mhc_log = TfOut(2)[t2].median_mhc_log

\* under 'in_between' an income of 27 becomes 9 and a housing cost of 8
\* becomes ln(8), in period 1 as in period 2, next to an untouched 5
C17_Witness ==
    /\ xpc = "transformed"
    /\ transformation = "in_between"
    /\ \E t1 \in DOMAIN tf_df1 : \E t2 \in DOMAIN tf_df2 :
        /\ tf_df1[t1].median_hh_inc = Fin(27) /\ tf_df2[t2].median_hh_inc = Fin(27)
        /\ tf_df1[t1].median_mhc = Fin(8) /\ tf_df2[t2].median_mhc = Fin(8)
        /\ TfOut(1)[t1].median_hh_inc_log = Fin(9)
        /\ TfOut(2)[t2].median_hh_inc_log = Fin(9)
        /\ TfOut(1)[t1].median_mhc_log = [k |-> "ln", v |-> 8]
        /\ TfOut(2)[t2].median_mhc_log = [k |-> "ln", v |-> 8]
        /\ TfOut(1)[t1].per_grads = Fin(5)

\* C18: under 'box_cox' every value of a designated variable, in period 1
\* and in period 2, is transformed with one lambda, the one fitted on the
\* period-1 column of that variable.
C18_SharedLambda ==
    (xpc = "transformed" /\ transformation = "box_cox") =>
        \A k \in 1..2 : \A t \in DOMAIN TfIn(k) :
            /\ TfOut(k)[t].median_hh_inc_box
                = [k |-> "boxcox", v |-> TfIn(k)[t].median_hh_inc.v,
                   lmbda |-> [normmax |-> [u \in DOMAIN tf_df1 |->
                                              tf_df1[u].median_hh_inc]]]
            /\ TfOut(k)[t].median_mhc_box
                = [k |-> "boxcox", v |-> TfIn(k)[t].median_mhc.v,
                   lmbda |-> [normmax |-> [u \in DOMAIN tf_df1 |->
                                              tf_df1[u].median_mhc]]]

\* period 2's income column differs from period 1's and is transformed
\* with the lambda of period 1's
C18_Witness ==
    /\ xpc = "transformed"
    /\ transformation = "box_cox"
    /\ \E t1 \in DOMAIN tf_df1 : \E t2 \in DOMAIN tf_df2 :
        /\ tf_df1[t1].median_hh_inc = Fin(8)
        /\ tf_df2[t2].median_hh_inc = Fin(27)
        /\ TfOut(2)[t2].median_hh_inc_box.v = 27
        /\ TfOut(2)[t2].median_hh_inc_box.lmbda
            = TfOut(1)[t1].median_hh_inc_box.lmbda

\* The rows given to do_pca, period 1's first, and the order statistics of
\* a variable over all of them.
Stacked0 == pca_df1 \o pca_df2
Sorted0(c) ==
    [k \in 1..Len(Stacked0) |->
        Kth(1..Len(Stacked0), [i \in 1..Len(Stacked0) |-> Stacked0[i][c].v], k)]
\* four times the q4-th quartile of variable c over the stacked rows
Quartile0x4(c, q4) ==
    LET s == Sorted0(c)
        h == (Len(s) - 1) * q4
        k == h \div 4 + 1
    IN IF h % 4 = 0 THEN 4 * s[k] ELSE (4 - (h % 4)) * s[k] + (h % 4) * s[k + 1]

\* C19: the center of every variable is the median of its stacked column
\* and its scale the inter-quartile range of the stacked column (where that
\* range is not 0), and every row, of period 1 as of period 2, is scaled
\* with these: scaled * scale = value - center.
C19_StackedScaler ==
    (ppc \in {"scaled", "projected", "returned"}) =>
        \A c \in PcaCols :
            LET med == Frac(Quartile0x4(c, 2), 4)
                iqr == Frac(Quartile0x4(c, 3) - Quartile0x4(c, 1), 4)
                ce == scaler[c].center
                sc == scaler[c].scale
            IN /\ ce = med
               /\ iqr # Zero => sc = iqr
               /\ \A i \in 1..Len(Stacked0) :
                    LET v == array[i][c].v
                        x == Stacked0[i][c].v
                    IN /\ array[i][c].k = "fin"
                       /\ v.n * sc.n * ce.d = (x * ce.d - ce.n) * v.d * sc.d

\* period 1 holds [0, 0] and period 2 [4, 4]: the center is 2 (the median of
\* neither period), the scale 4, and the rows become -1/2 and 1/2
C19_Witness ==
    /\ ppc = "scaled"
    /\ Len(pca_df1) = 2 /\ Len(pca_df2) = 2
    /\ \A i \in 1..2 : pca_df1[i].x = Fin(0) /\ pca_df2[i].x = Fin(4)
    /\ scaler["x"] = [center |-> Frac(2, 1), scale |-> Frac(4, 1)]
    /\ array[1].x = Fin(Frac(-1, 2))
    /\ array[3].x = Fin(Frac(1, 2))

\* the scaling of an input row with the fitted scaler
Scaled0(r) ==
    [c \in PcaCols |->
        [k |-> "fin",
         v |-> FracDiv(FracSub(Frac(r[c].v, 1), scaler[c].center), scaler[c].scale)]]

\* C20: of the n1 + n2 projected rows the k-th is the score of period 1's
\* k-th row (k <= n1) and the (n1 + k)-th the score of period 2's k-th row;
\* the returned frame has one row per tract of either index, holding the
\* tract's own period-1 values and score (_pre) and period-2 values and
\* score (_post), NaN for a period the tract is missing from.
C20_ScoresSplitByRows ==
    (ppc = "returned") =>
        LET n1 == Len(pca_df1)
            n2 == Len(pca_df2)
        IN /\ Len(pscores) = n1 + n2
           /\ DOMAIN merged = SeqToSet(pca_idx1) \cup SeqToSet(pca_idx2)
           /\ \A k \in 1..n1 :
                /\ pscores[k] = [pc1 |-> Scaled0(pca_df1[k])]
                /\ merged[pca_idx1[k]].scores_pre = pscores[k]
                /\ merged[pca_idx1[k]].x_pre = pca_df1[k].x
                /\ merged[pca_idx1[k]].y_pre = pca_df1[k].y
           /\ \A k \in 1..n2 :
                /\ pscores[n1 + k] = [pc1 |-> Scaled0(pca_df2[k])]
                /\ merged[pca_idx2[k]].scores_post = pscores[n1 + k]
                /\ merged[pca_idx2[k]].x_post = pca_df2[k].x
                /\ merged[pca_idx2[k]].y_post = pca_df2[k].y
           /\ \A t \in DOMAIN merged :
                /\ t \notin SeqToSet(pca_idx1) => merged[t].scores_pre = PNaN
                /\ t \notin SeqToSet(pca_idx2) => merged[t].scores_post = PNaN

\* tables of two rows each over the same two tracts: each tract carries the
\* score of its own row of either period, three different scores in all
C20_Witness ==
    /\ ppc = "returned"
    /\ Len(pca_df1) = 2 /\ Len(pca_df2) = 2
    /\ pca_idx1 = pca_idx2
    /\ \E t, u \in DOMAIN merged :
        /\ t # u
        /\ Cardinality({merged[t].scores_pre, merged[t].scores_post,
                        merged[u].scores_pre}) = 3
        /\ merged[u].scores_post # merged[t].scores_post
        /\ merged[t].scores_pre = pscores[1]
        /\ merged[u].scores_pre = pscores[2]
        /\ merged[t].scores_post = pscores[3]
        /\ merged[u].scores_post = pscores[4]

FracAdd(a, b) == Frac(a.n * b.d + b.n * a.d, a.d * b.d)

RECURSIVE FracSum(_, _)
\* the sum of the rationals f[i], i \in S
FracSum(S, f) ==
    IF S = {} THEN Zero
    ELSE LET i == CHOOSE x \in S : TRUE IN FracAdd(f[i], FracSum(S \ {i}, f))

\* C28: over the n tracts of a call the ranks of each period sum to
\* n(n+1)/2, the percentile ranks of the two periods have the same sum, and
\* the percentile-rank ascents sum to 0.
C28_RankSums ==
    (rpc = "ranked") =>
        LET S == DOMAIN scores
            n == Cardinality(S)
        IN /\ \A p \in Periods :
                FracSum(S, [i \in S |-> RankOf(p, i)]) = Frac(n * (n + 1), 2)
           /\ FracSum(S, [i \in S |-> out[i].scores_pr_pre])
                = FracSum(S, [i \in S |-> out[i].scores_pr_post])
           /\ FracSum(S, [i \in S |-> out[i].scores_pr_asc]) = Zero

\* three tracts, two of them tied in period 1 and none in period 2, with
\* percentile-rank ascents that are not all 0
C28_Witness ==
    /\ rpc = "ranked"
    /\ Cardinality(DOMAIN scores) = 3
    /\ \E i, j \in DOMAIN scores :
        /\ i # j /\ scores[i].pre = scores[j].pre
        /\ out[i].scores_pr_asc # Zero
    /\ \A i, j \in DOMAIN scores : i # j => scores[i].post # scores[j].post
    /\ FracSum(DOMAIN scores, [i \in DOMAIN scores |-> out[i].rank_pre]) = Frac(6, 1)

\* C29: the percentile rank of a tract is 100 times the ascending percent
\* rank of its score: the number of lower scores plus half the number of
\* equal scores (the tract included) plus a half, over n; it is greater than
\* 0 and at most 100.
C29_PercentileOfScore ==
    (rpc = "ranked") =>
        \A p \in Periods : \A i \in DOMAIN scores :
            LET S == DOMAIN scores
                lower == Cardinality({j \in S : scores[j][p] < scores[i][p]})
                same == Cardinality({j \in S : scores[j][p] = scores[i][p]})
            IN /\ PctOf(p, i) = Frac(100 * (2 * lower + same + 1), 2 * Cardinality(S))
               /\ Greater(PctOf(p, i), Zero)
               /\ ~Greater(PctOf(p, i), Frac(100, 1))

\* two of three tracts tied at the top: both have percentile 250/3
C29_Witness ==
    /\ rpc = "ranked"
    /\ Cardinality(DOMAIN scores) = 3
    /\ \E i, j, l \in DOMAIN scores :
        /\ i # j
        /\ scores[i].post = scores[j].post /\ scores[l].post < scores[i].post
        /\ out[i].scores_pr_post = Frac(250, 3)
        /\ out[j].scores_pr_post = Frac(250, 3)
        /\ out[l].scores_pr_post = Frac(100, 3)

\* C30: the test of whether the two tables hold the same tracts never
\* raises: tables with different numbers of tracts give False, and every
\* mismatch reaches the reconciliation.
C30_MismatchReconciled ==
    /\ tpc # "ValueError"
    /\ (tpc = "mismatch") => loaded[1] # loaded[2]
    /\ (tpc = "gather" /\ loaded[1] # loaded[2]) =>
        /\ SeqToSet(ds1.rows) = loaded[1] \cap loaded[2]
        /\ SeqToSet(ds2.rows) = loaded[1] \cap loaded[2]

\* C22 (as claimed): a tract of the table without a matching geometry is
\* treated as a tract without neighbours: its missing cells are filled
\* with the median of its county's known values and are not left missing.
C22_NoGeometryFilled ==
    AllDone =>
        \A t \in index \ geo : \A c \in ColSet :
            ( /\ county[t] \in SeqToSet(COUNTIES)
              /\ data0[t][c] = NaN
              /\ Known0(Merged(t), c) # {} )
            => /\ <<t, c>> \in filled
               /\ data[t][c] = Median0(Merged(t), c)

\* C26: the imputation writes only into cells that were missing (so a
\* column without missing values receives no write), every cell that is
\* not written, the known cells among them, keeps its value, and the set
\* of rows stays what it was.
C26_WritesOnlyMissing ==
    /\ DOMAIN data = index
    /\ DOMAIN data = DOMAIN data0
    /\ \A t \in index : \A c \in ColSet :
        IF <<t, c>> \in filled THEN data0[t][c] = NaN
        ELSE data[t][c] = data0[t][c]

\* a cell of the first column receives a value while the known cells of the
\* column and the complete second column stay as they were
C26_Witness ==
    /\ AllDone
    /\ \A t \in index : data0[t]["c2"] # NaN
    /\ \E t, u \in index :
        /\ <<t, "c1">> \in filled /\ data[t]["c1"] # NaN
        /\ data0[u]["c1"] # NaN /\ data[u]["c1"] = data0[u]["c1"]
    /\ \A t \in index : data[t]["c2"] = data0[t]["c2"]

\* C27: when the imputation returns, every fill is the value computed from
\* the tracts of the filled tract's own county that have a geometry, and
\* from nothing else: from the known values of its neighbours among them,
\* or else from the median over them. A tract of another county that
\* touches the filled tract contributes nothing.
C27_SameCountyOnly ==
    AllDone => \A cell \in filled :
        LET t == cell[1]
            c == cell[2]
            same == {u \in index : county[u] = county[t] /\ u \in geo}
            adj == {u \in same : u # t /\ {t, u} \in touches}
            K == {u \in adj : data0[u][c] # NaN}
        IN /\ t \in same
           /\ data[t][c] = IF K # {} THEN gmean(K, Int0(c)) ELSE Median0(same, c)

\* a filled tract touches a tract of its own county holding 4 and a tract
\* of another county holding 9, and receives 4
C27_Witness ==
    AllDone /\ \E cell \in filled : \E u, v \in index :
        LET t == cell[1]
            c == cell[2]
        IN /\ county[u] = county[t] /\ county[v] # county[t]
           /\ {t, u} \in touches /\ {t, v} \in touches
           /\ u \in geo /\ v \in geo
           /\ data0[u][c] = Num(4) /\ data0[v][c] = Num(9)
           /\ data[t][c] = Num(4)

\* C24 (as claimed): while a fill of the column remains to be computed, no
\* fill of that column has been written into the table.
C24_WritesDeferred ==
    (pc = "fill" /\ tracts # {}) =>
        \A t \in DOMAIN df : <<t, Head(cols)>> \notin filled

\* C24 (amended): each fill is written into the table as soon as it is
\* computed, and the frame the fills are computed from is a copy that no
\* write reaches: during a column's pass it holds the pre-fill values of
\* its rows, the cells already written included.
C24_SnapshotFrozen ==
    (pc = "fill") =>
        /\ \A t \in DOMAIN df : df[t] = data0[t]
        /\ \A t \in DOMAIN df :
            <<t, Head(cols)>> \in filled => df[t][Head(cols)] = NaN
        /\ tracts = {t \in DOMAIN df :
                        df[t][Head(cols)] = NaN /\ <<t, Head(cols)>> \notin filled}

\* one fill of the column is in the table while another is still to be
\* computed, and the frame still misses the written cell
C24_Witness ==
    /\ pc = "fill"
    /\ tracts # {}
    /\ \E t \in DOMAIN df :
        /\ <<t, Head(cols)>> \in filled
        /\ data[t][Head(cols)] # NaN
        /\ df[t][Head(cols)] = NaN

\* The cells of the file that hold the code, and the integer of each row of
\* a column of the file.
Coded(t, c) == raw0[t][c] = Num(nan_code)
RawInt(c) == [u \in DOMAIN raw0 |-> raw0[u][c].num]

\* C21: convert_acs_encoding returns the table with every cell holding the
\* code missing and every other cell as it was, and leaves its argument as
\* it was; the constructor converts before it drops the unpopulated tracts,
\* and the imputation that follows fills cells that held the code from
\* cells that did not: the code is never read as a known value.
C21_SentinelConverted ==
    (raw0 # <<>>) =>
        /\ raw = raw0
        /\ (pc = "converted") =>
            /\ DOMAIN data = DOMAIN raw0
            /\ \A t \in DOMAIN raw0 : \A c \in LoadCols :
                data[t][c] = IF Coded(t, c) THEN NaN ELSE raw0[t][c]
        /\ (pc \in {"idle", "fill", "done"}) =>
            /\ index = {t \in DOMAIN raw0 : raw0[t]["Total Population"] # Num(0)}
            /\ \A t \in index : \A c \in LoadCols :
                data0[t][c] = IF Coded(t, c) THEN NaN ELSE raw0[t][c]
        /\ \A cell \in filled :
            LET t == cell[1]
                c == cell[2]
                K == {u \in Nbrs(t) : ~Coded(u, c)}
                M == {u \in Merged(t) : ~Coded(u, c)}
            IN /\ Coded(t, c)
               /\ data[t][c] = IF K # {} THEN gmean(K, RawInt(c))
                               ELSE median(M, RawInt(c))

\* a populated tract whose cell held the code is filled with the value of
\* its neighbour, while an unpopulated tract holding the code is dropped
C21_Witness ==
    /\ pc = "done"
    /\ \E t \in index : \E u \in DOMAIN raw0 :
        /\ Coded(t, "c1") /\ data[t]["c1"] = Num(9)
        /\ u \notin index /\ Coded(u, "c1")

\* C23 (as claimed): a call of fillna without gmean ends without an error
\* and every cell that was missing holds the median of the known values its
\* column had before the call, the other cells being as they were; a call
\* with gmean and without a shapefile fails on the assertion and changes no
\* cell.
C23_MedianFill ==
    (call # <<>>) =>
        /\ (~call.gmean) =>
            /\ pc = "done"
            /\ \A t \in index : \A c \in ColSet :
                data[t][c] = IF data0[t][c] = NaN THEN Median0(index, c)
                             ELSE data0[t][c]
        /\ (call.gmean /\ call.shapefile = "None") =>
            /\ pc = "AssertionError"
            /\ data = data0

\* The fill of a tract of the year's subset computed from the pre-fill
\* values: the geometric mean of the known values of its neighbours, or
\* else the median of the known values of its county.
VisNbrs(t) == {u \in index \ {t} : {t, u} \in touches}
VisPreFill(t) ==
    IF Known0(VisNbrs(t), col_name) # {}
    THEN gmean(Known0(VisNbrs(t), col_name), Int0(col_name))
    ELSE median(Known0(CountyRows(t), col_name), Int0(col_name))

\* C25 (as claimed): in the fill loop of plot_local_moran_time_lapse every
\* fill is the value computed from the pre-fill values of the year's
\* subset, in whatever order the incomplete tracts are taken (stated for
\* the fills the model evaluates exactly).
C25_VisOrderIndependent ==
    \A cell \in filled :
        (df # <<>> /\ cols = <<col_name>> /\ df[cell[1]][col_name] # Inexact)
        => df[cell[1]][col_name] = VisPreFill(cell[1])

====
